---- MODULE Spec2Model ----
(***************************************************************************)
(* Load-balancing core of the grpc crate: the aggregate connectivity       *)
(* state (effective_state), the round-robin picker (RRPickerPicker), the   *)
(* child manager (ChildManager, single-subchannel-update flavour) with its *)
(* wrapping controller, and the delegating policy built on top of it.      *)
(*                                                                         *)
(* Vec indices are 1-based here (Rust index i is i+1); Option<T> is a      *)
(* sequence of length 0 (None) or 1 (Some).                                *)
(***************************************************************************)
EXTENDS Integers, Sequences, FiniteSets, TLC

\* ------------------------------------------------------------------ bounds
MaxChildren == 2       \* longest endpoint list in a resolver update
MaxSubchannels == 2    \* subchannels created over a run
MaxCalls == 2          \* controller calls a child makes in one callback
MaxPicks == 6          \* picks issued on one round-robin picker
MaxLen == 4            \* longest sequence handed to effective_state
MaxRRChildren == 3     \* most children of a round-robin picker
NumThreads == 2        \* threads picking, creating or connecting concurrently
MaxHandles == 3        \* Subchannel::new calls in a run
MaxCloneDepth == 2     \* clone of a clone of ...
MaxAttempts == 2       \* connection attempts of one subchannel in a run
MaxPublications == 4   \* Watcher::update calls in a run
MaxEndpoints == 2      \* endpoints in a resolver update given to pick_first
MaxAddrs == 2          \* addresses in an endpoint
MaxPFCalls == 4        \* controller calls pick_first makes in a run
MaxTokens == 5         \* JSON tokens in a text given to parse_config
MaxItems == 4          \* items sent to the channel's work queue in a run
MaxDPSubchannels == 3  \* subchannels created under the delegating policy
AddrsPerEndpoint == 1  \* addresses of each endpoint

Identifiers == {"A", "B"}
ConnectivityState == {"Idle", "Connecting", "Ready", "TransientFailure"}

None == <<>>
Some(x) == <<x>>

\* ------------------------------------------------------- effective_state
EffStepNoConnectingGuard(connectivity_state, con_state) ==
    IF con_state = "Ready" THEN "Ready"
    ELSE IF con_state = "Connecting" /\ connectivity_state # "Ready"
         THEN "Connecting"
    ELSE IF con_state = "Idle" /\ connectivity_state # "Ready"
         THEN "Idle"
    ELSE IF connectivity_state # "Ready" /\ connectivity_state # "Connecting"
            /\ connectivity_state # "Idle"
         THEN "TransientFailure"
    ELSE connectivity_state

\* One iteration of the loop body of effective_state.
EffStep(connectivity_state, con_state) ==
    IF con_state = "Ready" THEN "Ready"
    ELSE IF con_state = "Connecting" /\ connectivity_state # "Ready"
         THEN "Connecting"
    ELSE IF con_state = "Idle" /\ connectivity_state # "Connecting"
            /\ connectivity_state # "Ready"
         THEN "Idle"
    ELSE IF connectivity_state # "Ready" /\ connectivity_state # "Connecting"
            /\ connectivity_state # "Idle"
         THEN "TransientFailure"
    ELSE connectivity_state

RECURSIVE EffFold(_, _)
EffFold(connectivity_state, m) ==
    IF m = <<>> THEN connectivity_state
    ELSE EffFold(EffStep(connectivity_state, Head(m)), Tail(m))

effective_state(m) == EffFold("TransientFailure", m)

\* ---------------------------------------------------------------- pickers
QueuingPicker == [kind |-> "Queuing"]
DummyPicker(owner) == [kind |-> "Dummy", owner |-> owner]

LbState_initial == [connectivity_state |-> "Connecting", picker |-> QueuingPicker]

RRPickerPicker_new(children) == [kind |-> "RR", idx |-> 0, children |-> children]

\* Picker::pick for the leaf pickers.
LeafPick(picker) ==
    IF picker.kind = "Queuing" THEN "Queue" ELSE "Err"

\* A fetch_add whose increment is lost.
FetchAddLost(idx) == [ret |-> idx, new |-> idx]

\* self.idx.fetch_add(1, Relaxed): one atomic step.  idx is a usize; the
\* bound on picks keeps it far below the wrap.
FetchAdd(idx) == [ret |-> idx, new |-> idx + 1]

\* The child RRPickerPicker::pick delegates to, given the value fetch_add
\* returned: children[idx % children.len()].  0 stands for the panic of a
\* remainder by zero.
RRSelect(picker, idx) ==
    IF Len(picker.children) = 0 THEN 0
    ELSE (idx % Len(picker.children)) + 1


\* -------------------------------------------------------------- variables
VARIABLES
    children,                  \* ChildManager.children: Vec<Child<T>>
    subchannel_child_map,      \* ChildManager.subchannel_child_map
    children_requesting_work,  \* ChildManager.children_requesting_work
    cc,                        \* the channel's controller, as the policy sees it
    NEXT_SUBCHANNEL_ID,        \* static NEXT_SUBCHANNEL_ID: AtomicU32
    frame,                     \* the policy call in progress and its position
    created_by,                \* subchannel -> policy instance that created it (0: dropped)
    panicked,                  \* the policy's thread panicked
    scs,                       \* ChildPolicy.scs of each policy instance
    pick_result,               \* outcome of the last pick on the published picker ("none": not picked yet)
    es_input, es_result,       \* effective_state: argument and returned value
    rrp, thr, invoked,         \* round-robin picker shared by picking threads
    handles, id_thr,           \* Subchannel handles in existence; threads in Subchannel::new
    isc, lock, tasks, conn,    \* one InternalSubchannel: state, its mutex, spawned tasks, connections
    listener, callers,         \* notifications to its listener; threads calling connect
    watch, rx, observed, call, \* Watcher: the watch channel, a WatcherIter, what it returned; a pool call
    queue, pending, wq,        \* channel: work queue, GracefulSwitchBalancer.pending, work-queue task
    resolver, sched, chan,     \* resolver calls in update, threads in schedule_work, channel-side state
    pf, pfw, pf_result,        \* PickFirstPolicy, the controller it drives, its last result
    pc_input, pc_result,       \* parse_config: the text given and the result returned
    wk,                        \* ChildManager::work: the manager and the work asked for and done
    cbm,                       \* callback-flavoured child manager: its mutex and the calls in flight
    mgr                        \* routing and broadcast child managers driven side by side

cmvars == <<children, subchannel_child_map, children_requesting_work, cc,
            NEXT_SUBCHANNEL_ID, frame, created_by, panicked>>
dpvars == <<scs, pick_result>>
esvars == <<es_input, es_result>>
rrvars == <<rrp, thr, invoked>>
idvars == <<handles, id_thr>>
scvars == <<isc, lock, tasks, conn, listener, callers>>
wvars == <<watch, rx, observed, call>>
qvars == <<queue, pending, wq, resolver, sched, chan>>
pfvars == <<pf, pfw, pf_result, pc_input, pc_result>>
mvars == <<wk, cbm, mgr>>
vars == <<cmvars, dpvars, esvars, rrvars, idvars, scvars, wvars, qvars, pfvars, mvars>>

Range(f) == {f[x] : x \in DOMAIN f}

\* --------------------------------------------------- channel controller
\* A "world" w bundles what a controller call can change outside the
\* policy: the controller itself and the global subchannel id counter.

\* A constructor that reads the counter without advancing it.
Subchannel_new_load(next) == [id |-> next, next |-> next]

\* Subchannel::new: id = NEXT_SUBCHANNEL_ID.fetch_add(1).  The counter is an
\* AtomicU32; MaxSubchannels keeps it far below the wrap at 2^32.
Subchannel_new(next) == [id |-> next, next |-> next + 1]

CC_new_subchannel(w) ==
    LET sc == Subchannel_new(w.next)
    IN  [w   |-> [cc   |-> [w.cc EXCEPT
                               !.subchannels = Append(@, sc.id),
                               !.calls = Append(@, [op |-> "new_subchannel", ret |-> sc.id])],
                  next |-> sc.next],
         ret |-> sc.id]

CC_update_picker(w, update) ==
    [w EXCEPT !.cc.picker = Some(update),
              !.cc.calls = Append(@, [op |-> "update_picker", state |-> update])]

CC_request_resolution(w) ==
    [w EXCEPT !.cc.calls = Append(@, [op |-> "request_resolution"])]

\* ------------------------------------------------- wrapping controller
WrappedController_new == [created_subchannels |-> <<>>, picker_update |-> None]

WC_new_subchannel(wc, w) ==
    LET r == CC_new_subchannel(w)
    IN  [wc  |-> [wc EXCEPT !.created_subchannels = Append(@, r.ret)],
         w   |-> r.w,
         ret |-> r.ret]

\* An update_picker that stores the update and also passes it on.
WC_update_picker_forwarding(wc, w, update) ==
    [wc |-> [wc EXCEPT !.picker_update = Some(update)],
     w  |-> CC_update_picker(w, update)]

WC_update_picker(wc, w, update) ==
    [wc |-> [wc EXCEPT !.picker_update = Some(update)],
     w  |-> w]

WC_request_resolution(wc, w) ==
    [wc |-> wc, w |-> CC_request_resolution(w)]

\* ------------------------------------------------------- child policies
\* A child policy is code the manager does not control: in one callback it
\* makes any sequence of calls on the controller it was handed.
ChildReports == {"Ready", "TransientFailure"}

ChildCall ==
    {[op |-> "new_subchannel"], [op |-> "request_resolution"]}
    \cup {[op |-> "update_picker", state |-> c] : c \in ChildReports}

ChildCallSeqs == UNION {[1..n -> ChildCall] : n \in 0..MaxCalls}

NumNew(calls) == Cardinality({i \in DOMAIN calls : calls[i].op = "new_subchannel"})

\* Runs the child's calls against its wrapping controller.  acc carries the
\* wrapping controller, the world and the subchannels returned to the child.
RECURSIVE RunChild(_, _, _)
RunChild(acc, policy, calls) ==
    IF calls = <<>> THEN acc
    ELSE LET c == Head(calls)
             nxt ==
               IF c.op = "new_subchannel" THEN
                   LET r == WC_new_subchannel(acc.wc, acc.w)
                   IN  [wc |-> r.wc, w |-> r.w, returned |-> Append(acc.returned, r.ret)]
               ELSE IF c.op = "update_picker" THEN
                   LET r == WC_update_picker(acc.wc, acc.w,
                                [connectivity_state |-> c.state,
                                 picker |-> DummyPicker(policy)])
                   IN  [wc |-> r.wc, w |-> r.w, returned |-> acc.returned]
               ELSE
                   LET r == WC_request_resolution(acc.wc, acc.w)
                   IN  [wc |-> r.wc, w |-> r.w, returned |-> acc.returned]
         IN  RunChild(nxt, policy, Tail(calls))

\* ------------------------------------------------------- child manager
\* A resolve that records the created subchannels against the first child.
resolve_child_controller_first(self, channel_controller, child_idx) ==
    LET m == [s \in DOMAIN self.subchannel_child_map
                    \cup Range(channel_controller.created_subchannels) |->
                 IF s \in Range(channel_controller.created_subchannels)
                 THEN 1 ELSE self.subchannel_child_map[s]]
    IN  [children |->
            IF channel_controller.picker_update # None
            THEN [self.children EXCEPT ![child_idx].state =
                                           channel_controller.picker_update[1]]
            ELSE self.children,
         subchannel_child_map |-> m]

\* self is [children, subchannel_child_map].
resolve_child_controller(self, channel_controller, child_idx) ==
    LET m == [s \in DOMAIN self.subchannel_child_map
                    \cup Range(channel_controller.created_subchannels) |->
                 IF s \in Range(channel_controller.created_subchannels)
                 THEN child_idx ELSE self.subchannel_child_map[s]]
    IN  [children |->
            IF channel_controller.picker_update # None
            THEN [self.children EXCEPT ![child_idx].state =
                                           channel_controller.picker_update[1]]
            ELSE self.children,
         subchannel_child_map |-> m]


\* The sharder the delegating policy gives its child manager: one child per
\* endpoint, identified by the endpoint; an error update is rejected.
shard_update(resolver_update) ==
    IF resolver_update.kind # "Data"
    THEN [ok |-> FALSE, err |-> "bad update", child_updates |-> <<>>]
    ELSE [ok |-> TRUE, err |-> "",
          child_updates |->
             [i \in DOMAIN resolver_update.endpoints |->
                 [child_identifier |-> resolver_update.endpoints[i],
                  child_update |-> [kind |-> "Data",
                                    endpoints |-> <<resolver_update.endpoints[i]>>]]]]

\* old_children.into_iter().enumerate()...collect() into a HashMap keyed by
\* identifier: of two old children with equal identifiers the later wins.
HashOldChildren(old_children) ==
    [id \in {old_children[i].identifier : i \in DOMAIN old_children} |->
        LET i == CHOOSE i \in DOMAIN old_children :
                    /\ old_children[i].identifier = id
                    /\ \A j \in DOMAIN old_children :
                          old_children[j].identifier = id => j <= i
        IN  [policy |-> old_children[i].policy,
             state |-> old_children[i].state,
             old_idx |-> i]]

\* The reversed ownership map: child index -> subchannels it owned.
ReverseMap(old_subchannel_child_map) ==
    [i \in Range(old_subchannel_child_map) |->
        {s \in DOMAIN old_subchannel_child_map : old_subchannel_child_map[s] = i}]

\* A reuse that keeps the policy but starts its state over.
ReusedChildResetState(identifier, e) ==
    [identifier |-> identifier, state |-> LbState_initial, policy |-> e.policy]

\* The Child pushed for an identifier found among the old children.
ReusedChild(identifier, e) ==
    [identifier |-> identifier, state |-> e.state, policy |-> e.policy]

\* A fresh child that starts IDLE.
FreshChildIdle(identifier, policy) ==
    [identifier |-> identifier,
     state |-> [connectivity_state |-> "Idle", picker |-> QueuingPicker],
     policy |-> policy]

\* The Child pushed for an identifier with no old child: a policy just built
\* and LbState::initial().
FreshChild(identifier, policy) ==
    [identifier |-> identifier, state |-> LbState_initial, policy |-> policy]

\* A take that leaves the old entries in place.
mem_take_keep(m) == m

\* mem::take(&mut self.subchannel_child_map): the old map moves out and an
\* empty one is left in its place.
mem_take(m) == <<>>

Without(f, ks) == [k \in DOMAIN f \ ks |-> f[k]]

\* builder.build: a new policy instance.  An instance is named by its
\* address: one that no old child and no child built so far occupies.
Build(in_use) == CHOOSE p \in 1..(Cardinality(in_use) + 1) :
                    p \notin in_use /\ \A q \in 1..(p - 1) : q \in in_use

\* The loop over ids_builders.  acc is [children, subchannel_child_map,
\* old_children, old_child_subchannels_map, in_use, reused].
RECURSIVE ReconcileLoop(_, _, _)
ReconcileLoop(acc, ids, new_idx) ==
    IF new_idx > Len(ids) THEN acc
    ELSE
      LET identifier == ids[new_idx] IN
      IF identifier \in DOMAIN acc.old_children THEN
        LET e == acc.old_children[identifier]
            moved == IF e.old_idx \in DOMAIN acc.old_child_subchannels_map
                     THEN acc.old_child_subchannels_map[e.old_idx] ELSE {}
            m == acc.subchannel_child_map
        IN  ReconcileLoop(
              [children |-> Append(acc.children, ReusedChild(identifier, e)),
               subchannel_child_map |->
                   [s \in DOMAIN m \cup moved |->
                       IF s \in moved THEN new_idx ELSE m[s]],
               old_children |-> Without(acc.old_children, {identifier}),
               old_child_subchannels_map |->
                   Without(acc.old_child_subchannels_map, {e.old_idx}),
               in_use |-> acc.in_use,
               reused |-> acc.reused \cup {new_idx}],
              ids, new_idx + 1)
      ELSE
        LET policy == Build(acc.in_use) IN
        ReconcileLoop(
          [acc EXCEPT !.children = Append(@, FreshChild(identifier, policy)),
                      !.in_use = @ \cup {policy}],
          ids, new_idx + 1)

Policies(chs) == {chs[i].policy : i \in DOMAIN chs}

\* resolver_update with the swaps done before the sharder is asked.
CM_reconcile_swap_first(self, resolver_update) ==
    LET sh == shard_update(resolver_update) IN
    IF ~sh.ok
    THEN [ok |-> FALSE, err |-> sh.err, children |-> <<>>,
          subchannel_child_map |-> <<>>, reused |-> {}, updates |-> <<>>]
    ELSE
      LET ids == [i \in DOMAIN sh.child_updates |-> sh.child_updates[i].child_identifier]
          r == ReconcileLoop(
                 [children |-> <<>>,
                  subchannel_child_map |-> mem_take(self.subchannel_child_map),
                  old_children |-> HashOldChildren(self.children),
                  old_child_subchannels_map |-> ReverseMap(self.subchannel_child_map),
                  in_use |-> Policies(self.children), reused |-> {}],
                 ids, 1)
      IN  [ok |-> TRUE, err |-> "", children |-> r.children,
           subchannel_child_map |-> r.subchannel_child_map, reused |-> r.reused,
           updates |-> [i \in DOMAIN sh.child_updates |-> sh.child_updates[i].child_update]]

\* ChildManager::resolver_update up to the fan-out: shard, then swap out the
\* children and the ownership map, then rebuild both.
CM_reconcile(self, resolver_update) ==
    LET sh == shard_update(resolver_update) IN
    IF ~sh.ok
    THEN [ok |-> FALSE, err |-> sh.err, children |-> self.children,
          subchannel_child_map |-> self.subchannel_child_map,
          reused |-> {}, updates |-> <<>>]
    ELSE
      LET ids == [i \in DOMAIN sh.child_updates |-> sh.child_updates[i].child_identifier]
          r == ReconcileLoop(
                 [children |-> <<>>,
                  subchannel_child_map |-> mem_take(self.subchannel_child_map),
                  old_children |-> HashOldChildren(self.children),
                  old_child_subchannels_map |-> ReverseMap(self.subchannel_child_map),
                  in_use |-> Policies(self.children), reused |-> {}],
                 ids, 1)
      IN  [ok |-> TRUE, err |-> "", children |-> r.children,
           subchannel_child_map |-> r.subchannel_child_map, reused |-> r.reused,
           updates |-> [i \in DOMAIN sh.child_updates |-> sh.child_updates[i].child_update]]

\* --------------------------------------------------- delegating policy
\* DelegatingPolicy::update_picker: publish the aggregate of the children.
\* A filter that keeps every child's picker.
EligiblePickersAll(chs, connectivity_state) ==
    [i \in DOMAIN chs |-> chs[i].state.picker]

\* child_states().filter_map(..).collect(): the pickers of the children whose
\* state is the aggregate, in child order.
EligiblePickers(chs, connectivity_state) ==
    LET eligible == SelectSeq(chs,
               LAMBDA c : c.state.connectivity_state = connectivity_state)
    IN  [i \in DOMAIN eligible |-> eligible[i].state.picker]

\* An aggregate branch that queues only while CONNECTING.
AggregateLbStateIdleRouted(chs) ==
    LET connectivity_state ==
            effective_state([i \in DOMAIN chs |-> chs[i].state.connectivity_state])
    IN  IF connectivity_state # "Connecting"
        THEN [connectivity_state |-> connectivity_state,
              picker |-> RRPickerPicker_new(EligiblePickers(chs, connectivity_state))]
        ELSE [connectivity_state |-> connectivity_state, picker |-> QueuingPicker]

\* The LbState DelegatingPolicy::update_picker hands to the controller.
AggregateLbState(chs) ==
    LET connectivity_state ==
            effective_state([i \in DOMAIN chs |-> chs[i].state.connectivity_state])
    IN  IF connectivity_state = "Ready" \/ connectivity_state = "TransientFailure"
        THEN [connectivity_state |-> connectivity_state,
              picker |-> RRPickerPicker_new(EligiblePickers(chs, connectivity_state))]
        ELSE [connectivity_state |-> connectivity_state, picker |-> QueuingPicker]

\* An update_picker that publishes a queuing picker first and the aggregate
\* after it.
DP_update_picker_twice(chs, w) ==
    CC_update_picker(
        CC_update_picker(w, [connectivity_state |-> "Connecting",
                             picker |-> QueuingPicker]),
        AggregateLbState(chs))

DP_update_picker(chs, w) == CC_update_picker(w, AggregateLbState(chs))


\* ------------------------------------------------------------- actions
\* Bookkeeping of who created each subchannel: the entries of a policy
\* instance that is dropped are marked 0, since its address may be used again.
Creators(cb, chs) ==
    [s \in DOMAIN cb |-> IF cb[s] \in Policies(chs) THEN cb[s] ELSE 0]

Self == [children |-> children, subchannel_child_map |-> subchannel_child_map]
World == [cc |-> cc, next |-> NEXT_SUBCHANNEL_ID]

ResolverUpdates ==
    {[kind |-> "Err"]}
    \cup {[kind |-> "Data", endpoints |-> e] :
             e \in UNION {[1..n -> Identifiers] : n \in 0..MaxChildren}}

\* A fan-out that returns at the first child error.
ChildResultPropagated(result) == IF result = "Err" THEN "return" ELSE "continue"

\* What ChildManager::resolver_update does with the Result of a child's
\* resolver_update: `let _ = ...` discards it and the loop goes on.
ChildResultHandling(result) == "continue"

Idle == [op |-> "idle", pc |-> "idle"]

\* An iterator that yields its items from the back.
Iter_next_back(updates) ==
    [item |-> updates[Len(updates)], rest |-> SubSeq(updates, 1, Len(updates) - 1)]

\* updates.next().unwrap() on the iterator of the sharded ResolverUpdates.
Iter_next(updates) == [item |-> Head(updates), rest |-> Tail(updates)]

Returning(op, result, updated, child_err) ==
    [op |-> op, pc |-> "return", result |-> result, updated |-> updated,
     child_err |-> child_err]

\* The policy of children[child_idx] runs one callback against a fresh
\* wrapping controller; its calls reach the channel's controller through it.
\* The frame keeps the wrapping controller until it is resolved, the
\* ResolverUpdate the child was given (child_update) and, during a fan-out,
\* what is left of the iterator over the sharded updates (updates).
InCallback(op, updates, child_idx, child_err, calls, result, child_update) ==
    LET policy == children[child_idx].policy
        run == RunChild([wc |-> WrappedController_new, w |-> World,
                         returned |-> <<>>], policy, calls)
    IN  /\ cc' = run.w.cc
        /\ NEXT_SUBCHANNEL_ID' = run.w.next
        /\ frame' = [op |-> op, pc |-> "resolve", updates |-> updates,
                     child_idx |-> child_idx, child_err |-> child_err,
                     policy |-> policy, calls |-> calls, result |-> result,
                     child_update |-> child_update,
                     channel_controller |-> run.wc, returned |-> run.returned]

Init_cm ==
    /\ children = <<>>
    /\ subchannel_child_map = <<>>
    /\ children_requesting_work = {}
    /\ cc = [subchannels |-> <<>>, picker |-> None, calls |-> <<>>]
    /\ NEXT_SUBCHANNEL_ID = 0
    /\ frame = Idle
    /\ created_by = <<>>
    /\ panicked = FALSE

Init_dp == scs = <<>> /\ pick_result = "none"

Init_es == es_input = <<>> /\ es_result = "none"

Init_rr == rrp = RRPickerPicker_new(<<>>) /\ thr = <<>> /\ invoked = {}

\* ChildManager::resolver_update, first part: shard and reconcile; a
\* sharding error returns at once.
ResolverUpdateBeginWith(update) ==
    /\ frame.pc = "idle" /\ ~panicked
    /\ LET r == CM_reconcile(Self, update) IN
         /\ children' = r.children
         /\ subchannel_child_map' = r.subchannel_child_map
         /\ created_by' = Creators(created_by, r.children)
         /\ frame' = IF r.ok
                     THEN [op |-> "resolver_update", pc |-> "next",
                           updates |-> r.updates, child_idx |-> 1,
                           child_err |-> 0]
                     ELSE Returning("resolver_update", r.err, 0, 0)
    /\ UNCHANGED <<children_requesting_work, cc, NEXT_SUBCHANNEL_ID, panicked,
                   dpvars, esvars, rrvars, idvars, scvars, wvars, qvars, pfvars, mvars>>

ResolverUpdateBegin == \E update \in ResolverUpdates : ResolverUpdateBeginWith(update)

\* The fan-out loop body: resolver_update of the next child.  A policy that
\* rejects its update does so before it touches the controller.
ResolverUpdateChild ==
    /\ frame.pc = "next" /\ ~panicked
    /\ frame.child_idx <= Len(children)
    /\ \E calls \in ChildCallSeqs, result \in {"Ok", "Err"} :
         /\ result = "Err" => calls = <<>>
         /\ NEXT_SUBCHANNEL_ID + NumNew(calls) <= MaxSubchannels
         /\ LET n == Iter_next(frame.updates) IN
            InCallback("resolver_update", n.rest, frame.child_idx,
                       frame.child_err, calls, result, Some(n.item))
    /\ UNCHANGED <<children, subchannel_child_map, children_requesting_work,
                   created_by, panicked, dpvars, esvars, rrvars, idvars, scvars, wvars, qvars, pfvars, mvars>>

\* The callback returned: resolve_child_controller, then on to the next
\* child or out of the call.
Resolve ==
    /\ frame.pc = "resolve" /\ ~panicked
    /\ IF frame.op = "resolver_update" /\ ChildResultHandling(frame.result) = "return"
       THEN /\ frame' = Returning(frame.op, "child error", frame.child_idx, frame.child_idx)
            /\ UNCHANGED <<children, subchannel_child_map, created_by>>
       ELSE LET self2 == resolve_child_controller(Self, frame.channel_controller,
                                                  frame.child_idx)
            IN  /\ children' = self2.children
                /\ subchannel_child_map' = self2.subchannel_child_map
                /\ created_by' =
                     [s \in DOMAIN created_by \cup Range(frame.returned) |->
                         IF s \in Range(frame.returned) THEN frame.policy
                         ELSE created_by[s]]
                /\ frame' =
                     IF frame.op = "resolver_update"
                     THEN [op |-> "resolver_update", pc |-> "next",
                           updates |-> frame.updates,
                           child_idx |-> frame.child_idx + 1,
                           child_err |-> IF frame.child_err = 0 /\ frame.result = "Err"
                                         THEN frame.child_idx ELSE frame.child_err]
                     ELSE Returning(frame.op, "Ok", 1, 0)
    /\ cc' = [cc EXCEPT !.calls = <<>>]
    /\ UNCHANGED <<children_requesting_work, NEXT_SUBCHANNEL_ID, panicked,
                   dpvars, esvars, rrvars, idvars, scvars, wvars, qvars, pfvars, mvars>>

\* End of the fan-out: ChildManager::resolver_update returns Ok(()).
ResolverUpdateEnd ==
    /\ frame.pc = "next" /\ ~panicked
    /\ frame.child_idx > Len(children)
    /\ frame' = Returning("resolver_update", "Ok", frame.child_idx - 1, frame.child_err)
    /\ UNCHANGED <<children, subchannel_child_map, children_requesting_work, cc,
                   NEXT_SUBCHANNEL_ID, created_by, panicked, dpvars, esvars, rrvars, idvars, scvars, wvars, qvars, pfvars, mvars>>

\* The call returns to the channel.
Return ==
    /\ frame.pc = "return" /\ ~panicked
    /\ frame' = Idle
    /\ UNCHANGED <<children, subchannel_child_map, children_requesting_work, cc,
                   NEXT_SUBCHANNEL_ID, created_by, panicked, dpvars, esvars, rrvars, idvars, scvars, wvars, qvars, pfvars, mvars>>

\* ChildManager::subchannel_update for a subchannel of the channel: look up
\* the owning child and call its policy.
SubchannelUpdateWith(subchannel) ==
    /\ frame.pc = "idle" /\ ~panicked
    /\ IF subchannel \notin DOMAIN subchannel_child_map
       THEN \* .get(subchannel).unwrap() on None
            /\ panicked' = TRUE
            /\ UNCHANGED <<cc, NEXT_SUBCHANNEL_ID, frame>>
       ELSE /\ \E calls \in ChildCallSeqs :
                 /\ NEXT_SUBCHANNEL_ID + NumNew(calls) <= MaxSubchannels
                 /\ InCallback("subchannel_update", <<>>,
                               subchannel_child_map[subchannel], 0, calls, "Ok", None)
            /\ UNCHANGED panicked
    /\ UNCHANGED <<children, subchannel_child_map, children_requesting_work,
                   created_by, dpvars, esvars, rrvars, idvars, scvars, wvars, qvars, pfvars, mvars>>

SubchannelUpdate == \E subchannel \in Range(cc.subchannels) : SubchannelUpdateWith(subchannel)

\* ChildManager::work: take the set of children that asked for work and
\* call work on each.  Nothing in the crate ever adds to that set
\* (children are built with a NopWorkScheduler), so the loop body is written
\* for one requesting child and is never entered.
Work ==
    /\ frame.pc = "idle" /\ ~panicked
    /\ children_requesting_work' = {}
    /\ IF children_requesting_work = {}
       THEN /\ frame' = Returning("work", "Ok", 0, 0)
            /\ UNCHANGED <<cc, NEXT_SUBCHANNEL_ID, panicked>>
       ELSE \E child_idx \in children_requesting_work :
            IF child_idx > Len(children)
            THEN /\ panicked' = TRUE
                 /\ UNCHANGED <<cc, NEXT_SUBCHANNEL_ID, frame>>
            ELSE /\ \E calls \in ChildCallSeqs :
                      /\ NEXT_SUBCHANNEL_ID + NumNew(calls) <= MaxSubchannels
                      /\ InCallback("work", <<>>, child_idx, 0, calls, "Ok", None)
                 /\ UNCHANGED panicked
    /\ UNCHANGED <<children, subchannel_child_map, created_by, dpvars, esvars,
                   rrvars, idvars, scvars, wvars, qvars, pfvars, mvars>>

Init_id == handles = {} /\ id_thr = <<>>

Init_sc ==
    /\ isc = [state |-> "Idle"]
    /\ lock = 0
    /\ tasks = <<>>
    /\ conn = <<>>
    /\ listener = <<>>
    /\ callers = <<>>

Init_w == watch = <<>> /\ rx = <<>> /\ observed = <<>> /\ call = <<>>

Init_q ==
    /\ queue = <<>>
    /\ pending = FALSE
    /\ wq = <<>>
    /\ resolver = <<>>
    /\ sched = <<>>
    /\ chan = <<>>

Init_pf ==
    /\ pf = <<>>
    /\ pfw = <<>>
    /\ pf_result = <<>>
    /\ pc_input = <<>>
    /\ pc_result = <<>>

Init_wk == wk = <<>>
Init_cbm == cbm = <<>>
Init_mgr == mgr = <<>>

Init_rest == Init_w /\ Init_q /\ Init_pf /\ Init_wk /\ Init_cbm /\ Init_mgr

Init == Init_cm /\ Init_dp /\ Init_es /\ Init_rr /\ Init_id /\ Init_sc /\ Init_rest

Next ==
    \/ ResolverUpdateBegin
    \/ ResolverUpdateChild
    \/ Resolve
    \/ ResolverUpdateEnd
    \/ Return
    \/ SubchannelUpdate
    \/ Work

Spec == Init /\ [][Next]_vars


\* ============================= delegating policy over the child manager
\* ChildPolicy::default(): no subchannels.
ChildPolicy_default == <<>>

\* The body of the loop over the endpoint's addresses in
\* ChildPolicy::resolver_update: new_subchannel, connect, insert as Idle.
RECURSIVE CP_connect(_, _)
CP_connect(acc, n) ==
    IF n = 0 THEN acc
    ELSE LET r == WC_new_subchannel(acc.wc, acc.w)
         IN  CP_connect([result |-> acc.result,
                         scs |-> [s \in DOMAIN acc.scs \cup {r.ret} |->
                                     IF s = r.ret THEN "Idle" ELSE acc.scs[s]],
                         wc |-> r.wc, w |-> r.w], n - 1)

CP_resolver_update(policy_scs, update, wc, w) ==
    IF update.kind # "Data"
    THEN [result |-> "Err", scs |-> policy_scs, wc |-> wc, w |-> w]
    ELSE CP_connect([result |-> "Ok", scs |-> policy_scs, wc |-> wc, w |-> w],
                    AddrsPerEndpoint)

\* The values of scs in one iteration order.  effective_state does not
\* depend on the order (C1).
RECURSIVE Values(_, _)
Values(m, keys) ==
    IF keys = {} THEN <<>>
    ELSE LET k == CHOOSE k \in keys : \A o \in keys : k <= o
         IN  <<m[k]>> \o Values(m, keys \ {k})

CP_subchannel_update(policy_scs, policy, subchannel, state, wc, w) ==
    IF subchannel \notin DOMAIN policy_scs
    THEN [scs |-> policy_scs, wc |-> wc, w |-> w]
    ELSE LET scs2 == [policy_scs EXCEPT ![subchannel] = state]
             r == WC_update_picker(wc, w,
                     [connectivity_state |-> effective_state(Values(scs2, DOMAIN scs2)),
                      picker |-> DummyPicker(policy)])
         IN  [scs |-> scs2, wc |-> r.wc, w |-> r.w]

\* The fan-out of ChildManager::resolver_update over the concrete child
\* policies.  acc is [self, scs, w, created_by].
RECURSIVE FanOut(_, _, _)
FanOut(acc, updates, child_idx) ==
    IF child_idx > Len(acc.self.children) THEN acc
    ELSE LET policy == acc.self.children[child_idx].policy
             r == CP_resolver_update(acc.scs[policy], updates[child_idx],
                                     WrappedController_new, acc.w)
             self2 == resolve_child_controller(acc.self, r.wc, child_idx)
         IN  IF ChildResultHandling(r.result) = "return"
             THEN [acc EXCEPT !.result = "child error"]
             ELSE FanOut([self |-> self2,
                          scs |-> [acc.scs EXCEPT ![policy] = r.scs],
                          w |-> r.w,
                          created_by |->
                             [s \in DOMAIN acc.created_by
                                     \cup Range(r.wc.created_subchannels) |->
                                 IF s \in Range(r.wc.created_subchannels)
                                 THEN policy ELSE acc.created_by[s]],
                          result |-> "Ok"],
                         updates, child_idx + 1)

StartCalls(w) == [w EXCEPT !.cc.calls = <<>>]

\* DelegatingPolicy::resolver_update: the child manager's resolver_update,
\* `?`, then update_picker.
DPResolverUpdateWith(update) ==
    /\ frame.pc = "idle" /\ ~panicked
    /\   LET r == CM_reconcile(Self, update) IN
         IF ~r.ok
         THEN /\ cc' = [cc EXCEPT !.calls = <<>>]
              /\ UNCHANGED <<children, subchannel_child_map, NEXT_SUBCHANNEL_ID,
                             created_by, scs, pick_result>>
         ELSE /\ NEXT_SUBCHANNEL_ID + Len(r.children) * AddrsPerEndpoint
                    <= MaxDPSubchannels
              /\ LET f == FanOut(
                       [self |-> [children |-> r.children,
                                  subchannel_child_map |-> r.subchannel_child_map],
                        scs |-> [p \in Policies(r.children) |->
                                    IF p \in Policies(children) THEN scs[p]
                                    ELSE ChildPolicy_default],
                        w |-> StartCalls(World),
                        created_by |-> Creators(created_by, r.children),
                        result |-> "Ok"],
                       r.updates, 1)
                     w2 == IF f.result = "Ok"
                           THEN DP_update_picker(f.self.children, f.w) ELSE f.w
                 IN  /\ children' = f.self.children
                     /\ subchannel_child_map' = f.self.subchannel_child_map
                     /\ scs' = f.scs
                     /\ created_by' = f.created_by
                     /\ cc' = w2.cc
                     /\ NEXT_SUBCHANNEL_ID' = w2.next
                     /\ pick_result' = IF f.result = "Ok" THEN "none" ELSE pick_result
    /\ UNCHANGED <<children_requesting_work, frame, panicked, esvars, rrvars, idvars, scvars, wvars, qvars, pfvars, mvars>>

DPResolverUpdate == \E update \in ResolverUpdates : DPResolverUpdateWith(update)

\* DelegatingPolicy::subchannel_update: route to the owning child, resolve
\* its controller, then update_picker.
DPSubchannelUpdate ==
    /\ frame.pc = "idle" /\ ~panicked
    /\ \E subchannel \in Range(cc.subchannels), state \in ConnectivityState :
         IF subchannel \notin DOMAIN subchannel_child_map
         THEN \* .get(subchannel).unwrap() on None
              /\ panicked' = TRUE
              /\ UNCHANGED <<children, subchannel_child_map, cc, scs, pick_result>>
         ELSE LET child_idx == subchannel_child_map[subchannel]
                  policy == children[child_idx].policy
                  r == CP_subchannel_update(scs[policy], policy, subchannel, state,
                                            WrappedController_new, StartCalls(World))
                  self2 == resolve_child_controller(Self, r.wc, child_idx)
                  w2 == DP_update_picker(self2.children, r.w)
              IN  /\ children' = self2.children
                  /\ subchannel_child_map' = self2.subchannel_child_map
                  /\ scs' = [scs EXCEPT ![policy] = r.scs]
                  /\ cc' = w2.cc
                  /\ pick_result' = "none"
                  /\ UNCHANGED panicked
    /\ UNCHANGED <<children_requesting_work, NEXT_SUBCHANNEL_ID, frame, created_by,
                   esvars, rrvars, idvars, scvars, wvars, qvars, pfvars, mvars>>

\* DelegatingPolicy::work: the child manager's work over the (empty) set of
\* children that asked for it, then update_picker.
DPWork ==
    /\ frame.pc = "idle" /\ ~panicked
    /\ children_requesting_work = {}
    /\ cc' = DP_update_picker(children, StartCalls(World)).cc
    /\ pick_result' = "none"
    /\ UNCHANGED <<children, subchannel_child_map, children_requesting_work,
                   NEXT_SUBCHANNEL_ID, frame, created_by, panicked, scs,
                   esvars, rrvars, idvars, scvars, wvars, qvars, pfvars, mvars>>

\* A pick on the picker the channel holds.
DPPick ==
    /\ ~panicked
    /\ cc.picker # None
    /\ LET picker == cc.picker[1].picker IN
       IF picker.kind = "RR"
       THEN /\ picker.idx < MaxPicks
            /\ LET f == FetchAdd(picker.idx)
                   child == RRSelect(picker, f.ret)
               IN  /\ cc' = [cc EXCEPT !.picker[1].picker.idx = f.new]
                   /\ pick_result' = IF child = 0 THEN "panic"
                                     ELSE LeafPick(picker.children[child])
       ELSE /\ pick_result' = LeafPick(picker)
            /\ UNCHANGED cc
    /\ UNCHANGED <<children, subchannel_child_map, children_requesting_work,
                   NEXT_SUBCHANNEL_ID, frame, created_by, panicked, scs,
                   esvars, rrvars, idvars, scvars, wvars, qvars, pfvars, mvars>>

NextDP == DPResolverUpdate \/ DPSubchannelUpdate \/ DPWork \/ DPPick

SpecDP == Init /\ [][NextDP]_vars

\* ================================================== effective_state alone
Permutable == UNION {[1..n -> ConnectivityState] : n \in 0..MaxLen}

InitEff == Init_cm /\ Init_dp /\ Init_rr /\ Init_id /\ Init_sc /\ Init_rest /\ es_input \in Permutable /\ es_result = "none"

\* A call of effective_state on the current sequence.
EffEvaluate ==
    /\ es_result' = effective_state(es_input)
    /\ UNCHANGED <<es_input, cmvars, dpvars, rrvars, idvars, scvars, wvars, qvars, pfvars, mvars>>

\* The same states reach the function in another order.
EffPermute ==
    /\ \E i \in 1..(Len(es_input) - 1) :
         es_input' = [es_input EXCEPT ![i] = es_input[i + 1], ![i + 1] = es_input[i]]
    /\ UNCHANGED <<es_result, cmvars, dpvars, rrvars, idvars, scvars, wvars, qvars, pfvars, mvars>>

NextEff == EffEvaluate \/ EffPermute

SpecEff == InitEff /\ [][NextEff]_vars

\* ============================================ round-robin picker, threads
Threads == 1..NumThreads

InitRR ==
    /\ Init_cm /\ Init_dp /\ Init_es /\ Init_id /\ Init_sc /\ Init_rest
    /\ \E n \in 1..MaxRRChildren :
         rrp = RRPickerPicker_new([i \in 1..n |-> DummyPicker(i)])
    /\ thr = [t \in Threads |-> [pc |-> "ready", idx |-> 0]]
    /\ invoked = {}

\* First half of RRPickerPicker::pick on thread t: the fetch_add.
PickFetch(t) ==
    /\ thr[t].pc = "ready"
    /\ rrp.idx < MaxPicks
    /\ LET f == FetchAdd(rrp.idx) IN
       /\ rrp' = [rrp EXCEPT !.idx = f.new]
       /\ thr' = [thr EXCEPT ![t] = [pc |-> "fetched", idx |-> f.ret]]
    /\ UNCHANGED <<invoked, cmvars, dpvars, esvars, idvars, scvars, wvars, qvars, pfvars, mvars>>

\* Second half: index the children and call the chosen child's pick.
PickInvoke(t) ==
    /\ thr[t].pc = "fetched"
    /\ invoked' = invoked \cup {[idx |-> thr[t].idx,
                                 child |-> RRSelect(rrp, thr[t].idx)]}
    /\ thr' = [thr EXCEPT ![t] = [pc |-> "ready", idx |-> 0]]
    /\ UNCHANGED <<rrp, cmvars, dpvars, esvars, idvars, scvars, wvars, qvars, pfvars, mvars>>

NextRR == \E t \in Threads : PickFetch(t) \/ PickInvoke(t)

SpecRR == InitRR /\ [][NextRR]_vars

\* ==================================================== Subchannel handles
\* A handle is [id, origin, depth]: origin numbers the Subchannel::new call
\* it stems from and depth counts the clones in between; neither is stored
\* in the program.

\* impl PartialEq for Subchannel: the ids alone are compared.
Subchannel_eq(a, b) == a.id = b.id

\* #[derive(Clone)]: the clone carries the same id.
Subchannel_clone(h) == [h EXCEPT !.depth = @ + 1]

InitId ==
    /\ Init_cm /\ Init_dp /\ Init_es /\ Init_rr /\ Init_sc /\ Init_rest
    /\ handles = {}
    /\ id_thr = [t \in Threads |-> [pc |-> "ready", id |-> 0]]

\* Subchannel::new on thread t, first half: NEXT_SUBCHANNEL_ID.fetch_add.
IdFetch(t) ==
    /\ id_thr[t].pc = "ready"
    /\ NEXT_SUBCHANNEL_ID < MaxHandles
    /\ LET sc == Subchannel_new(NEXT_SUBCHANNEL_ID) IN
       /\ NEXT_SUBCHANNEL_ID' = sc.next
       /\ id_thr' = [id_thr EXCEPT ![t] = [pc |-> "fetched", id |-> sc.id]]
    /\ UNCHANGED <<handles, children, subchannel_child_map, children_requesting_work,
                   cc, frame, created_by, panicked, dpvars, esvars, rrvars, scvars, wvars, qvars, pfvars, mvars>>

\* Second half: the handle is built and returned.
IdConstruct(t) ==
    /\ id_thr[t].pc = "fetched"
    /\ handles' = handles \cup
           {[id |-> id_thr[t].id,
             origin |-> Cardinality({h.origin : h \in handles}) + 1,
             depth |-> 0]}
    /\ id_thr' = [id_thr EXCEPT ![t] = [pc |-> "ready", id |-> 0]]
    /\ UNCHANGED <<cmvars, dpvars, esvars, rrvars, scvars, wvars, qvars, pfvars, mvars>>

\* Some holder clones a handle.
IdClone ==
    /\ \E h \in handles :
         /\ h.depth < MaxCloneDepth
         /\ handles' = handles \cup {Subchannel_clone(h)}
    /\ UNCHANGED <<id_thr, cmvars, dpvars, esvars, rrvars, scvars, wvars, qvars, pfvars, mvars>>

NextId == (\E t \in Threads : IdFetch(t) \/ IdConstruct(t)) \/ IdClone

SpecId == InitId /\ [][NextId]_vars

\* =================================================== InternalSubchannel
\* One InternalSubchannel.  isc is the value inside its state mutex, lock the
\* mutex (0 = free, t = held by caller thread t), tasks the futures spawned
\* by connect in spawn order, conn the connections the transport has handed
\* out, listener the SubchannelStates passed to the connectivity_state
\* callback so far.

\* enum InternalSubchannelState.  Connecting carries the abort handle of the
\* task (its index in tasks), Ready the connected transport (its index in
\* conn).  TransientFailure is declared but constructed nowhere.
ISS_Idle == [state |-> "Idle"]
ISS_Connecting(ah) == [state |-> "Connecting", ah |-> ah]
ISS_Ready_unconnected(svc) == [state |-> "Ready", svc |-> 0]
ISS_Ready(svc) == [state |-> "Ready", svc |-> svc]

connected_transport(state) ==
    IF state.state = "Ready" THEN Some(state.svc) ELSE None

\* impl Drop for InternalSubchannelState: dropping Connecting(ah) aborts the
\* task behind ah.  The abort takes effect when that task next yields.
ISS_drop(old, ts) ==
    IF old.state = "Connecting"
    THEN [ts EXCEPT ![old.ah].aborted = TRUE]
    ELSE ts

\* The match in connect: only the Idle arm starts an attempt.
StartsAttemptAlsoConnecting(state) == state.state \in {"Idle", "Connecting"}
StartsAttemptAlsoReady(state) == state.state \in {"Idle", "Ready"}
StartsAttempt(state) == state.state = "Idle"

\* The SubchannelState handed to the listener by to_ready and to_idle.
SubchannelState(connectivity_state) ==
    [connectivity_state |-> connectivity_state, last_connection_error |-> None]

\* The future of lines 86-98 right after tokio::task::spawn.
NewTask == [pc |-> "notified", permit |-> FALSE, aborted |-> FALSE,
            result |-> "none", svc |-> 0]

InitSC ==
    /\ Init_cm /\ Init_dp /\ Init_es /\ Init_rr /\ Init_id /\ Init_rest
    /\ isc = ISS_Idle
    /\ lock = 0
    /\ tasks = <<>>
    /\ conn = <<>>
    /\ listener = <<>>
    /\ callers = [t \in Threads |-> [pc |-> "idle", task |-> 0, last |-> "none"]]

\* connect on thread t: self.state.lock().
ConnectLock(t) ==
    /\ callers[t].pc = "idle"
    /\ lock = 0
    /\ StartsAttempt(isc) => Len(tasks) < MaxAttempts
    /\ lock' = t
    /\ callers' = [callers EXCEPT ![t].pc = "locked"]
    /\ UNCHANGED <<isc, tasks, conn, listener, cmvars, dpvars, esvars, rrvars, idvars, wvars, qvars, pfvars, mvars>>

\* The match: in Idle the future is spawned; in every other state connect
\* returns, releasing the mutex.
ConnectMatch(t) ==
    /\ callers[t].pc = "locked"
    /\ IF StartsAttempt(isc)
       THEN /\ tasks' = Append(tasks, NewTask)
            /\ callers' = [callers EXCEPT ![t] =
                   [pc |-> "spawned", task |-> Len(tasks) + 1, last |-> "started"]]
            /\ UNCHANGED lock
       ELSE /\ callers' = [callers EXCEPT ![t] =
                   [pc |-> "idle", task |-> 0, last |-> "noop"]]
            /\ lock' = 0
            /\ UNCHANGED tasks
    /\ UNCHANGED <<isc, conn, listener, cmvars, dpvars, esvars, rrvars, idvars, wvars, qvars, pfvars, mvars>>

\* *state = InternalSubchannelState::Connecting(jh.abort_handle()).
ConnectStore(t) ==
    /\ callers[t].pc = "spawned"
    /\ isc' = ISS_Connecting(callers[t].task)
    /\ tasks' = ISS_drop(isc, tasks)
    /\ callers' = [callers EXCEPT ![t].pc = "stored"]
    /\ UNCHANGED <<lock, conn, listener, cmvars, dpvars, esvars, rrvars, idvars, wvars, qvars, pfvars, mvars>>

\* n.notify_one(), then the guard goes out of scope.
ConnectNotify(t) ==
    /\ callers[t].pc = "stored"
    /\ tasks' = [tasks EXCEPT ![callers[t].task].permit = TRUE]
    /\ lock' = 0
    /\ callers' = [callers EXCEPT ![t] = [@ EXCEPT !.pc = "idle", !.task = 0]]
    /\ UNCHANGED <<isc, conn, listener, cmvars, dpvars, esvars, rrvars, idvars, wvars, qvars, pfvars, mvars>>

\* n2.notified().await in task k.
TaskNotified(k) ==
    /\ tasks[k].pc = "notified"
    /\ tasks[k].permit \/ tasks[k].aborted
    /\ tasks' = [tasks EXCEPT ![k] =
          IF tasks[k].permit
          THEN [@ EXCEPT !.pc = "connect", !.permit = FALSE]
          ELSE [@ EXCEPT !.pc = "cancelled"]]
    /\ UNCHANGED <<isc, lock, conn, listener, callers, cmvars, dpvars, esvars, rrvars, idvars, wvars, qvars, pfvars, mvars>>

\* s.t.connect(..).await.expect(..): the transport answers Ok with a new
\* connection or Err, and expect panics the task on Err.
TaskConnect(k) ==
    /\ tasks[k].pc = "connect"
    /\ \E ok \in BOOLEAN :
         IF tasks[k].aborted
         THEN /\ tasks' = [tasks EXCEPT ![k].pc = "cancelled"]
              /\ UNCHANGED conn
         ELSE IF ok
         THEN /\ conn' = Append(conn, "up")
              /\ tasks' = [tasks EXCEPT ![k] =
                    [@ EXCEPT !.pc = "to_ready", !.result = "ok", !.svc = Len(conn) + 1]]
         ELSE /\ tasks' = [tasks EXCEPT ![k] =
                    [@ EXCEPT !.pc = "panicked", !.result = "err"]]
              /\ UNCHANGED conn
    /\ UNCHANGED <<isc, lock, listener, callers, cmvars, dpvars, esvars, rrvars, idvars, wvars, qvars, pfvars, mvars>>

\* to_ready, first statement: the state is replaced under the mutex and the
\* replaced value is dropped.
TaskToReadyStore(k) ==
    /\ tasks[k].pc = "to_ready"
    /\ lock = 0
    /\ isc' = ISS_Ready(tasks[k].svc)
    /\ tasks' = ISS_drop(isc, [tasks EXCEPT ![k].pc = "ready_listener"])
    /\ UNCHANGED <<lock, conn, listener, callers, cmvars, dpvars, esvars, rrvars, idvars, wvars, qvars, pfvars, mvars>>

\* to_ready, second statement: the listener is called outside the mutex.
TaskToReadyListener(k) ==
    /\ tasks[k].pc = "ready_listener"
    /\ listener' = Append(listener, SubchannelState("Ready"))
    /\ tasks' = [tasks EXCEPT ![k].pc = "disconnected"]
    /\ UNCHANGED <<isc, lock, conn, callers, cmvars, dpvars, esvars, rrvars, idvars, wvars, qvars, pfvars, mvars>>

\* svc.disconnected().await: resolves once the connection is down; a task
\* that has been aborted is cancelled when the future is still pending.
TaskDisconnected(k) ==
    /\ tasks[k].pc = "disconnected"
    /\ conn[tasks[k].svc] = "down" \/ tasks[k].aborted
    /\ tasks' = [tasks EXCEPT ![k].pc =
          IF conn[tasks[k].svc] = "down" THEN "to_idle" ELSE "cancelled"]
    /\ UNCHANGED <<isc, lock, conn, listener, callers, cmvars, dpvars, esvars, rrvars, idvars, wvars, qvars, pfvars, mvars>>

\* to_idle, first statement.
TaskToIdleStore(k) ==
    /\ tasks[k].pc = "to_idle"
    /\ lock = 0
    /\ isc' = ISS_Idle
    /\ tasks' = ISS_drop(isc, [tasks EXCEPT ![k].pc = "idle_listener"])
    /\ UNCHANGED <<lock, conn, listener, callers, cmvars, dpvars, esvars, rrvars, idvars, wvars, qvars, pfvars, mvars>>

\* to_idle, second statement; the future then completes.
TaskToIdleListener(k) ==
    /\ tasks[k].pc = "idle_listener"
    /\ listener' = Append(listener, SubchannelState("Idle"))
    /\ tasks' = [tasks EXCEPT ![k].pc = "done"]
    /\ UNCHANGED <<isc, lock, conn, callers, cmvars, dpvars, esvars, rrvars, idvars, wvars, qvars, pfvars, mvars>>

\* The peer or the network drops connection c.
Disconnect(c) ==
    /\ conn[c] = "up"
    /\ conn' = [conn EXCEPT ![c] = "down"]
    /\ UNCHANGED <<isc, lock, tasks, listener, callers, cmvars, dpvars, esvars, rrvars, idvars, wvars, qvars, pfvars, mvars>>

CallerStep(t) ==
    ConnectLock(t) \/ ConnectMatch(t) \/ ConnectStore(t) \/ ConnectNotify(t)

TaskStep(k) ==
    \/ TaskNotified(k)
    \/ TaskConnect(k)
    \/ TaskToReadyStore(k)
    \/ TaskToReadyListener(k)
    \/ TaskDisconnected(k)
    \/ TaskToIdleStore(k)
    \/ TaskToIdleListener(k)

NextSC ==
    \/ \E t \in Threads : CallerStep(t)
    \/ \E k \in DOMAIN tasks : TaskStep(k)
    \/ \E c \in DOMAIN conn : Disconnect(c)

SpecSC == InitSC /\ [][NextSC]_vars

\* The runtime polls every runnable task, a thread inside connect runs to
\* its end, and a task waiting for the mutex gets it once it is released.
\* Calling connect and dropping a connection are up to the environment.
SpecSCFair ==
    /\ SpecSC
    /\ \A t \in Threads :
          WF_vars(ConnectMatch(t) \/ ConnectStore(t) \/ ConnectNotify(t))
    /\ \A k \in 1..MaxAttempts :
          /\ WF_vars(k \in DOMAIN tasks /\ TaskNotified(k))
          /\ WF_vars(k \in DOMAIN tasks /\ TaskConnect(k))
          /\ SF_vars(k \in DOMAIN tasks /\ TaskToReadyStore(k))
          /\ WF_vars(k \in DOMAIN tasks /\ TaskToReadyListener(k))
          /\ WF_vars(k \in DOMAIN tasks /\ TaskDisconnected(k))
          /\ SF_vars(k \in DOMAIN tasks /\ TaskToIdleStore(k))
          /\ WF_vars(k \in DOMAIN tasks /\ TaskToIdleListener(k))

\* ============================================================== Watcher
\* Watcher<T> wraps a tokio watch channel.  The channel holds the current
\* value and a version that every send advances; a receiver remembers the
\* version it has seen.  An item is [item, pub]: pub numbers the update call
\* that published it (each update allocates a fresh Arc).

WItems == {"p", "q"}

\* Watcher::new: watch::channel(None); the Watcher keeps the first receiver.
Watcher_new == [value |-> None, version |-> 0, rx |-> [version |-> 0]]

\* Watcher::iter: self.rx.clone() followed by mark_changed(), which steps the
\* clone's version back so that the current value counts as unseen.
\* tx.subscribe() in its place: the value current at the call counts as seen.
Watcher_subscribe(w) == [version |-> w.version]
Watcher_iter(w) == [version |-> w.rx.version - 1]

\* Watcher::update: tx.send(Some(Arc::new(item))).
Watcher_update(w, item) ==
    [w EXCEPT !.value = Some(item), !.version = @ + 1]

\* rx.changed(): ready when the channel's version differs from the one the
\* receiver has seen, which it then takes over.
changed_ready(r, w) == r.version # w.version
changed(r, w) == [r EXCEPT !.version = w.version]

\* rx.borrow(): the current value, the seen version left as it is.
borrow(r, w) == [x |-> w.value, r |-> r]

\* rx.borrow_and_update(): the current value, marked as seen.
borrow_and_update(r, w) == [x |-> w.value, r |-> [r EXCEPT !.version = w.version]]

\* Publications so far.
Pubs == IF watch.value = None THEN 0 ELSE watch.value[1].pub

InitW ==
    /\ Init_cm /\ Init_dp /\ Init_es /\ Init_rr /\ Init_id /\ Init_sc /\ Init_q /\ Init_pf /\ Init_wk /\ Init_cbm /\ Init_mgr
    /\ watch = Watcher_new
    /\ rx = [pc |-> "none", version |-> 0]
    /\ observed = <<>>
    /\ call = <<>>

\* The producer calls update.
WatcherUpdate ==
    /\ Pubs < MaxPublications
    /\ \E item \in WItems :
         watch' = Watcher_update(watch, [item |-> item, pub |-> Pubs + 1])
    /\ UNCHANGED <<rx, observed, call, cmvars, dpvars, esvars, rrvars, idvars, scvars, qvars, pfvars, mvars>>

\* The consumer obtains its iterator.
WatcherIterNew ==
    /\ rx.pc = "none"
    /\ rx' = [pc |-> "changed", version |-> Watcher_iter(watch).version, born |-> Pubs]
    /\ UNCHANGED <<watch, observed, call, cmvars, dpvars, esvars, rrvars, idvars, scvars, qvars, pfvars, mvars>>

\* WatcherIter::next: self.rx.changed().await.
NextChanged ==
    /\ rx.pc = "changed"
    /\ changed_ready(rx, watch)
    /\ rx' = [rx EXCEPT !.pc = "borrow", !.version = changed(rx, watch).version]
    /\ UNCHANGED <<watch, observed, call, cmvars, dpvars, esvars, rrvars, idvars, scvars, qvars, pfvars, mvars>>

\* WatcherIter::next: borrow_and_update; Some is returned to the consumer,
\* which calls next again, and None sends the loop back to changed().
NextBorrow ==
    /\ rx.pc = "borrow"
    /\ LET b == borrow_and_update(rx, watch) IN
       /\ rx' = [rx EXCEPT !.pc = "changed", !.version = b.r.version]
       /\ observed' = IF b.x = None THEN observed
                      ELSE Append(observed, [item |-> b.x[1], latest |-> Pubs])
    /\ UNCHANGED <<watch, call, cmvars, dpvars, esvars, rrvars, idvars, scvars, qvars, pfvars, mvars>>

NextW == WatcherUpdate \/ WatcherIterNew \/ NextChanged \/ NextBorrow

SpecW == InitW /\ [][NextW]_vars

\* The consumer keeps calling next: its steps are taken whenever they can be.
SpecWFair ==
    SpecW /\ WF_vars(WatcherIterNew) /\ WF_vars(NextChanged) /\ WF_vars(NextBorrow)

\* =========================================================== pick_first
\* PickFirstPolicy is [subchannels, next_addresses].  Its world w holds the
\* controller (cc), the id counter (next), the address each subchannel was
\* created for, the subchannels whose connect was called and the number of
\* timer tasks spawned to call schedule_work.

Addresses == {"a1", "a2"}

Ok == [ok |-> TRUE]
Err(msg) == [ok |-> FALSE, err |-> msg]

\* ResolverUpdate: Err, or Data with endpoints, each a list of addresses.
PFEndpoints == UNION {[1..n -> Addresses] : n \in 0..MaxAddrs}
PFUpdates ==
    {[kind |-> "Err"]}
    \cup {[kind |-> "Data", endpoints |-> e] :
             e \in UNION {[1..n -> PFEndpoints] : n \in 0..MaxEndpoints}}

\* struct LbPolicyConfig { shuffle_address_list: Option<bool> }
LbPolicyConfigs == {[shuffle_address_list |-> v] : v \in {None, Some(TRUE), Some(FALSE)}}

\* Builder::build.
PickFirstPolicy_new == [subchannels |-> <<>>, next_addresses |-> <<>>]

PFWorld_new ==
    [cc |-> [subchannels |-> <<>>, picker |-> None, calls |-> <<>>],
     next |-> 0, address |-> <<>>, connects |-> <<>>, timers |-> 0]

\* InternalChannelController::new_subchannel for an address.
PF_new_subchannel(w, address) ==
    LET r == CC_new_subchannel([cc |-> w.cc, next |-> w.next])
    IN  [w   |-> [w EXCEPT !.cc = r.w.cc, !.next = r.w.next,
                           !.address = Append(@, address)],
         ret |-> r.ret]

PF_update_picker(w, update) ==
    LET r == CC_update_picker([cc |-> w.cc, next |-> w.next], update)
    IN  [w EXCEPT !.cc = r.cc]

OneSubchannelPicker(sc) == [kind |-> "OneSubchannel", sc |-> sc]

\* The orders addresses.shuffle(&mut rng) can leave a list in.
Shuffles(addresses) ==
    {[i \in DOMAIN addresses |-> addresses[pi[i]]] : pi \in Permutations(DOMAIN addresses)}

\* if let Some(cfg) = config { if let Some(v) = cfg.shuffle_address_list .. }
shuffle_addresses(config) ==
    IF config # None /\ config[1].shuffle_address_list # None
    THEN config[1].shuffle_address_list[1]
    ELSE FALSE

\* The policy as the `?` of a failed validation leaves it.
PF_on_error_reset(p) == PickFirstPolicy_new
PF_on_error(p) == p

\* PickFirstPolicy::resolver_update; shuffled is the order the shuffle gave.
PF_resolver_update(p, update, config, w, shuffled) ==
    IF update.kind # "Data"
    THEN [p |-> PF_on_error(p), w |-> w, result |-> Err("unhandled")]
    ELSE IF update.endpoints = <<>>
    THEN [p |-> PF_on_error(p), w |-> w, result |-> Err("no endpoints")]
    ELSE LET addresses == IF shuffle_addresses(config) THEN shuffled
                          ELSE update.endpoints[1]
         IN  IF addresses = <<>>
             THEN [p |-> PF_on_error(p), w |-> w, result |-> Err("no addresses")]
             ELSE LET address == addresses[Len(addresses)]
                      r == PF_new_subchannel(w, address)
                  IN  [p |-> [subchannels |-> <<r.ret>>,
                              next_addresses |-> SubSeq(addresses, 1, Len(addresses) - 1)],
                       w |-> [r.w EXCEPT !.connects = Append(@, r.ret),
                                         !.timers = @ + 1],
                       result |-> Ok]

\* A subchannel_update that publishes for every READY subchannel, the
\* policy's own or not.
PF_subchannel_update_any(p, subchannel, state, w) ==
    IF state.connectivity_state = "Ready"
    THEN [p |-> p,
          w |-> PF_update_picker(w, [connectivity_state |-> "Ready",
                                     picker |-> OneSubchannelPicker(subchannel)])]
    ELSE [p |-> p, w |-> w]

\* PickFirstPolicy::subchannel_update.
PF_subchannel_update(p, subchannel, state, w) ==
    IF /\ \E i \in DOMAIN p.subchannels : p.subchannels[i] = subchannel
       /\ state.connectivity_state = "Ready"
    THEN [p |-> p,
          w |-> PF_update_picker(w, [connectivity_state |-> "Ready",
                                     picker |-> OneSubchannelPicker(subchannel)])]
    ELSE [p |-> p, w |-> w]

\* PickFirstPolicy::work.
PF_work(p, w) ==
    IF p.next_addresses = <<>>
    THEN [p |-> p, w |-> w]
    ELSE LET n == Len(p.next_addresses)
             r == PF_new_subchannel(w, p.next_addresses[n])
         IN  [p |-> [subchannels |-> Append(p.subchannels, r.ret),
                     next_addresses |-> SubSeq(p.next_addresses, 1, n - 1)],
              w |-> r.w]

InitPF ==
    /\ Init_cm /\ Init_dp /\ Init_es /\ Init_rr /\ Init_id /\ Init_sc /\ Init_w /\ Init_q
    /\ Init_wk /\ Init_cbm /\ Init_mgr
    /\ pf = PickFirstPolicy_new
    /\ pfw = PFWorld_new
    /\ pf_result = [op |-> "none"]
    /\ pc_input = <<>>
    /\ pc_result = <<>>

\* A step of the policy's resolver_update.
PFResolverUpdateStep ==
    /\ pf_result'.op = "resolver_update"
    /\ <<pf, pfw, pf_result>>' # <<pf, pfw, pf_result>>

PFFailed == pf_result.op = "resolver_update" /\ ~pf_result.result.ok

PFResolverUpdate ==
    /\ Len(pfw.cc.calls) < MaxPFCalls
    /\ \E update \in PFUpdates, config \in {None} \cup {Some(c) : c \in LbPolicyConfigs} :
         \E shuffled \in (IF update.kind = "Data" /\ update.endpoints # <<>>
                          THEN Shuffles(update.endpoints[1]) ELSE {<<>>}) :
            LET r == PF_resolver_update(pf, update, config, pfw, shuffled) IN
            /\ pf' = r.p
            /\ pfw' = r.w
            /\ pf_result' = [op |-> "resolver_update", update |-> update,
                             result |-> r.result, after_error |-> PFFailed]
    /\ UNCHANGED <<pc_input, pc_result, cmvars, dpvars, esvars, rrvars, idvars, scvars, wvars, qvars, mvars>>

PFSubchannelUpdate ==
    /\ Len(pfw.cc.calls) < MaxPFCalls
    /\ \E subchannel \in Range(pfw.cc.subchannels), cs \in ConnectivityState :
         LET r == PF_subchannel_update(pf, subchannel, SubchannelState(cs), pfw) IN
         /\ pf' = r.p
         /\ pfw' = r.w
         /\ pf_result' = [op |-> "subchannel_update", subchannel |-> subchannel,
                          state |-> cs]
    /\ UNCHANGED <<pc_input, pc_result, cmvars, dpvars, esvars, rrvars, idvars, scvars, wvars, qvars, mvars>>

PFWork ==
    /\ Len(pfw.cc.calls) < MaxPFCalls
    /\ LET r == PF_work(pf, pfw) IN
       /\ pf' = r.p
       /\ pfw' = r.w
       /\ pf_result' = [op |-> "work"]
    /\ UNCHANGED <<pc_input, pc_result, cmvars, dpvars, esvars, rrvars, idvars, scvars, wvars, qvars, mvars>>

NextPF == PFResolverUpdate \/ PFSubchannelUpdate \/ PFWork

SpecPF == InitPF /\ [][NextPF]_vars

\* ========================================================= parse_config
\* Builder::parse_config hands the text to serde_json::from_str for
\* struct LbPolicyConfig { shuffle_address_list: Option<bool> } with
\* rename_all = "camelCase".  A text is a sequence of tokens; "key" is the
\* string "shuffleAddressList", "str" any other string, "junk" anything
\* that is no JSON token.
Tokens == {"{", "}", "[", "]", ":", ",", "key", "str", "true", "false", "null", "1", "junk"}
Scalars == {"key", "str", "true", "false", "null", "1"}
Strings == {"key", "str"}

Tok(t, i) == IF i \in DOMAIN t THEN t[i] ELSE "eof"

\* The index after the JSON value that starts at i, 0 when there is none.
RECURSIVE SkipValue(_, _), SkipElems(_, _), SkipMembers(_, _)
SkipValue(t, i) ==
    IF Tok(t, i) \in Scalars THEN i + 1
    ELSE IF Tok(t, i) = "[" THEN
         (IF Tok(t, i + 1) = "]" THEN i + 2 ELSE SkipElems(t, i + 1))
    ELSE IF Tok(t, i) = "{" THEN
         (IF Tok(t, i + 1) = "}" THEN i + 2 ELSE SkipMembers(t, i + 1))
    ELSE 0

\* Elements of an array from i on, up to and including its "]".
SkipElems(t, i) ==
    LET j == SkipValue(t, i) IN
    IF j = 0 THEN 0
    ELSE IF Tok(t, j) = "]" THEN j + 1
    ELSE IF Tok(t, j) = "," THEN SkipElems(t, j + 1)
    ELSE 0

\* Members of an object from i on, up to and including its "}".
SkipMembers(t, i) ==
    IF Tok(t, i) \notin Strings \/ Tok(t, i + 1) # ":" THEN 0
    ELSE LET j == SkipValue(t, i + 2) IN
         IF j = 0 THEN 0
         ELSE IF Tok(t, j) = "}" THEN j + 1
         ELSE IF Tok(t, j) = "," THEN SkipMembers(t, j + 1)
         ELSE 0

\* Deserializing Option<bool> at i: null is None, true and false are Some,
\* any other value has the wrong type.
OptionBool(t, i) ==
    IF Tok(t, i) = "null" THEN [ok |-> TRUE, v |-> None, next |-> i + 1]
    ELSE IF Tok(t, i) = "true" THEN [ok |-> TRUE, v |-> Some(TRUE), next |-> i + 1]
    ELSE IF Tok(t, i) = "false" THEN [ok |-> TRUE, v |-> Some(FALSE), next |-> i + 1]
    ELSE [ok |-> FALSE]

\* from_str ends with Deserializer::end: nothing may follow the value.
EndAnywhere(t, i) == TRUE
End(t, i) == i = Len(t) + 1

\* The derived visit_map from i on: a known key fills the field (twice is a
\* duplicate-field error), an unknown key has its value skipped.  seen tells
\* whether the field was met, v is its value so far.
RECURSIVE VisitMap(_, _, _, _)
VisitMap(t, i, seen, v) ==
    IF Tok(t, i) \notin Strings \/ Tok(t, i + 1) # ":" THEN [ok |-> FALSE]
    ELSE LET known == Tok(t, i) = "key"
             f == OptionBool(t, i + 2)
             j == IF known THEN (IF f.ok THEN f.next ELSE 0) ELSE SkipValue(t, i + 2)
             v2 == IF known /\ f.ok THEN f.v ELSE v
         IN  IF j = 0 \/ (known /\ seen) THEN [ok |-> FALSE]
             ELSE IF Tok(t, j) = "}" THEN [ok |-> TRUE, v |-> v2, next |-> j + 1]
             ELSE IF Tok(t, j) = "," THEN VisitMap(t, j + 1, seen \/ known, v2)
             ELSE [ok |-> FALSE]

\* serde_json's deserialize_struct: an object goes to visit_map, an array to
\* visit_seq, which takes the fields by position and wants every one of
\* them; anything else is an error.
from_str(t) ==
    LET r == IF Tok(t, 1) = "{" THEN
                  (IF Tok(t, 2) = "}" THEN [ok |-> TRUE, v |-> None, next |-> 3]
                   ELSE VisitMap(t, 2, FALSE, None))
             ELSE IF Tok(t, 1) = "[" THEN
                  (LET f == OptionBool(t, 2) IN
                   IF f.ok /\ Tok(t, f.next) = "]"
                   THEN [ok |-> TRUE, v |-> f.v, next |-> f.next + 1]
                   ELSE [ok |-> FALSE])
             ELSE [ok |-> FALSE]
    IN  IF r.ok /\ End(t, r.next)
        THEN [ok |-> TRUE, cfg |-> [shuffle_address_list |-> r.v]]
        ELSE Err("service config parsing failed")

\* Builder::parse_config.
parse_config(config) ==
    LET r == from_str(config) IN
    IF r.ok THEN [ok |-> TRUE, config |-> Some(r.cfg)] ELSE r

InitPC ==
    /\ Init_cm /\ Init_dp /\ Init_es /\ Init_rr /\ Init_id /\ Init_sc /\ Init_w /\ Init_q
    /\ Init_wk /\ Init_cbm /\ Init_mgr
    /\ pf = <<>> /\ pfw = <<>> /\ pf_result = <<>>
    /\ pc_input = <<>>
    /\ pc_result = [op |-> "none"]

\* The caller's text grows by one token.
PCAppend ==
    /\ pc_result.op = "none"
    /\ Len(pc_input) < MaxTokens
    /\ \E tok \in Tokens : pc_input' = Append(pc_input, tok)
    /\ UNCHANGED <<pc_result, pf, pfw, pf_result, cmvars, dpvars, esvars, rrvars, idvars, scvars, wvars, qvars, mvars>>

\* parse_config is called with the text.
PCParse ==
    /\ pc_result.op = "none"
    /\ pc_result' = [op |-> "parse_config", result |-> parse_config(pc_input)]
    /\ UNCHANGED <<pc_input, pf, pfw, pf_result, cmvars, dpvars, esvars, rrvars, idvars, scvars, wvars, qvars, mvars>>

NextPC == PCAppend \/ PCParse

SpecPC == InitPC /\ [][NextPC]_vars

\* ============================================================== channel
\* ActiveChannel: an unbounded mpsc work queue drained by one task that owns
\* the InternalChannelController.  queue holds the items sent and not yet
\* received, each with the number of its send (seq); wq is the draining
\* task; resolver[t] a name-resolver call of update on thread t with the
\* oneshot it waits on; sched[t] a thread in schedule_work ("coalesced":
\* its last call found a call pending and returned); chan the
\* GracefulSwitchBalancer's policy, the world its controller acts on, and
\* bookkeeping: sends so far, the seq of the item last started, what the
\* policy returned for the update of each resolver thread, and the
\* subchannels whose handles the policy has dropped, each with the number of
\* sends made before the drop.

ChUpdates ==
    {[kind |-> "Err"]}
    \cup {[kind |-> "Data", endpoints |-> e, service_config |-> sc] :
             e \in {<<>>, <<<<>>>>, <<<<"a1">>>>, <<<<"a1", "a2">>>>},
             sc \in {None, Some("cfg")}}

\* The closure of WorkQueueTx::update replies with tx.send(result).
OneshotSendOk(result) == Ok
OneshotSend(result) == result

\* rx.recv() hands out the item sent first.
RecvNewest(q) == [item |-> q[Len(q)], rest |-> SubSeq(q, 1, Len(q) - 1)]
Recv(q) == [item |-> Head(q), rest |-> Tail(q)]

\* mem::replace(&mut *self.pending.lock().unwrap(), true): the old value
\* decides whether schedule_work returns at once.
AlreadyPendingNever(old) == FALSE
AlreadyPending(old) == old

\* *c.lb.pending.lock().unwrap() = false, the first statement of the work
\* closure.
KeepPending(old) == old
ClearPending(old) == FALSE

\* What the policy's `if let Some(cfg) = config` sees of the value the
\* channel got from parse_config(""): a config only if parsing gave one.
ConfigArg(parsed) == IF parsed.ok THEN parsed.config ELSE None

\* GracefulSwitchBalancer::handle_resolver_update.  panic stands for the
\* todo!() the error variant runs into.
handle_resolver_update(policy, update, w, shuffled) ==
    IF update.kind # "Data"
    THEN [panic |-> TRUE, invoked |-> FALSE, policy |-> policy, w |-> w]
    ELSE IF update.service_config # None
    THEN [panic |-> FALSE, invoked |-> FALSE, policy |-> policy, w |-> w,
          result |-> Err("can't do service configs yet")]
    ELSE LET p == IF policy = None THEN PickFirstPolicy_new ELSE policy[1]
             config == ConfigArg(parse_config(<<>>))
             r == PF_resolver_update(p, update, config, w, shuffled)
         IN  [panic |-> FALSE, invoked |-> TRUE, policy |-> Some(r.p), w |-> r.w,
              result |-> r.result]

\* The handles policy p held and policy q, its successor, holds no more.
Dropped(p, q, at) ==
    LET held == IF p = None THEN {} ELSE Range(p[1].subchannels)
        kept == IF q = None THEN {} ELSE Range(q[1].subchannels)
    IN  {[sc |-> sc, at |-> at] : sc \in held \ kept}

ResolverIdle == [pc |-> "idle", update |-> [kind |-> "none"], reply |-> None, got |-> None]

InitCh ==
    /\ Init_cm /\ Init_dp /\ Init_es /\ Init_rr /\ Init_id /\ Init_sc /\ Init_w /\ Init_pf /\ Init_wk /\ Init_cbm /\ Init_mgr
    /\ queue = <<>>
    /\ pending = FALSE
    /\ wq = [pc |-> "recv"]
    /\ resolver = [t \in Threads |-> ResolverIdle]
    /\ sched = [t \in Threads |-> "idle"]
    /\ chan = [policy |-> None, w |-> PFWorld_new, seq |-> 0, last_run |-> 0,
               returned |-> [t \in Threads |-> None], dropped |-> {}]

Alive == wq.pc # "panicked"

\* UnboundedSender::send: appended while the receiver exists.
Send(item) ==
    IF Alive THEN Append(queue, [item EXCEPT !.seq = chan.seq + 1]) ELSE queue

\* WorkQueueTx::update up to rx.await: the closure is sent; a failed send
\* returns the error at once.
ResolverUpdateSendOf(t, updates) ==
    /\ resolver[t].pc \in {"idle", "done"}
    /\ chan.seq < MaxItems
    /\ \E update \in updates :
         /\ queue' = Send([kind |-> "resolver_update", update |-> update, from |-> t, seq |-> 0])
         /\ resolver' = [resolver EXCEPT ![t] =
               IF Alive
               THEN [pc |-> "waiting", update |-> update, reply |-> None, got |-> None]
               ELSE [pc |-> "done", update |-> update, reply |-> None,
                     got |-> Some(Err("send failed"))]]
    /\ chan' = [chan EXCEPT !.seq = @ + 1, !.returned[t] = None]
    /\ UNCHANGED <<pending, wq, sched, cmvars, dpvars, esvars, rrvars, idvars, scvars, wvars, pfvars, mvars>>

ResolverUpdateSend(t) == ResolverUpdateSendOf(t, ChUpdates)

\* rx.await? in WorkQueueTx::update: the reply, or the error of a sender
\* that was dropped without replying.
ResolverUpdateRecv(t) ==
    /\ resolver[t].pc = "waiting"
    /\ resolver[t].reply # None \/ ~Alive
    /\ resolver' = [resolver EXCEPT ![t] =
          [@ EXCEPT !.pc = "done",
                    !.got = IF resolver[t].reply # None THEN resolver[t].reply
                            ELSE Some(Err("channel closed"))]]
    /\ UNCHANGED <<queue, pending, wq, sched, chan, cmvars, dpvars, esvars, rrvars, idvars, scvars, wvars, pfvars, mvars>>

\* schedule_work, the mem::replace.
ScheduleWorkReplace(t) ==
    /\ sched[t] \in {"idle", "coalesced"}
    /\ chan.policy # None
    /\ chan.seq < MaxItems
    /\ pending' = TRUE
    /\ sched' = [sched EXCEPT ![t] = IF AlreadyPending(pending) THEN "coalesced" ELSE "replaced"]
    /\ UNCHANGED <<queue, wq, resolver, chan, cmvars, dpvars, esvars, rrvars, idvars, scvars, wvars, pfvars, mvars>>

\* schedule_work, the send of the work closure.
ScheduleWorkSend(t) ==
    /\ sched[t] = "replaced"
    /\ queue' = Send([kind |-> "work", seq |-> 0])
    /\ chan' = [chan EXCEPT !.seq = @ + 1]
    /\ sched' = [sched EXCEPT ![t] = "idle"]
    /\ UNCHANGED <<pending, wq, resolver, cmvars, dpvars, esvars, rrvars, idvars, scvars, wvars, pfvars, mvars>>

\* cs_update, the listener new_subchannel gives the InternalSubchannel: a
\* subchannel_update closure is sent for the subchannel's new state.
SubchannelNotify(sc, cs) ==
    /\ chan.seq < MaxItems
    /\ queue' = Send([kind |-> "subchannel_update", subchannel |-> sc, state |-> cs, seq |-> 0])
    /\ chan' = [chan EXCEPT !.seq = @ + 1]
    /\ UNCHANGED <<pending, wq, resolver, sched, cmvars, dpvars, esvars, rrvars, idvars, scvars, wvars, pfvars, mvars>>

\* The work-queue task: rx.recv().await returns the next closure.
WQRecv ==
    /\ wq.pc = "recv"
    /\ queue # <<>>
    /\ LET r == Recv(queue) IN
       /\ wq' = [pc |-> "run", item |-> r.item]
       /\ queue' = r.rest
       /\ chan' = [chan EXCEPT !.last_run = r.item.seq]
    /\ UNCHANGED <<pending, resolver, sched, cmvars, dpvars, esvars, rrvars, idvars, scvars, wvars, pfvars, mvars>>

\* w(&mut channel_controller) for a resolver update.  A panic ends the
\* task: the receiver and the closures still queued are dropped.
WQRunResolverUpdate ==
    /\ wq.pc = "run"
    /\ wq.item.kind = "resolver_update"
    /\ LET update == wq.item.update
           t == wq.item.from
           \* parse_config("") yields no config, so nothing is shuffled
           r == handle_resolver_update(chan.policy, update, chan.w, <<>>)
       IN    IF r.panic
             THEN /\ wq' = [pc |-> "panicked", item |-> wq.item]
                  /\ queue' = <<>>
                  /\ UNCHANGED <<resolver, chan>>
             ELSE /\ wq' = [pc |-> "recv"]
                  /\ resolver' = [resolver EXCEPT ![t].reply = Some(OneshotSend(r.result))]
                  /\ chan' = [chan EXCEPT !.policy = r.policy, !.w = r.w,
                                          !.returned[t] = IF r.invoked THEN Some(r.result)
                                                          ELSE None,
                                          !.dropped = @ \cup Dropped(chan.policy, r.policy, chan.seq)]
                  /\ UNCHANGED queue
    /\ UNCHANGED <<pending, sched, cmvars, dpvars, esvars, rrvars, idvars, scvars, wvars, pfvars, mvars>>

\* The subchannel_update closure: c.lb.subchannel_update(scu, c).
WQRunSubchannelUpdate ==
    /\ wq.pc = "run"
    /\ wq.item.kind = "subchannel_update"
    /\ LET r == PF_subchannel_update(chan.policy[1], wq.item.subchannel,
                                     SubchannelState(wq.item.state), chan.w) IN
       chan' = [chan EXCEPT !.policy = Some(r.p), !.w = r.w]
    /\ wq' = [pc |-> "recv"]
    /\ UNCHANGED <<queue, pending, resolver, sched, cmvars, dpvars, esvars, rrvars, idvars, scvars, wvars, pfvars, mvars>>

\* The work closure: pending is cleared, then the policy's work runs.
WQRunWork ==
    /\ wq.pc = "run"
    /\ wq.item.kind = "work"
    /\ pending' = ClearPending(pending)
    /\ LET r == PF_work(chan.policy[1], chan.w) IN
       chan' = [chan EXCEPT !.policy = Some(r.p), !.w = r.w]
    /\ wq' = [pc |-> "recv"]
    /\ UNCHANGED <<queue, resolver, sched, cmvars, dpvars, esvars, rrvars, idvars, scvars, wvars, pfvars, mvars>>

NextCh ==
    \/ \E t \in Threads : ResolverUpdateSend(t) \/ ResolverUpdateRecv(t)
    \/ \E t \in Threads : ScheduleWorkReplace(t) \/ ScheduleWorkSend(t)
    \/ \E sc \in Range(chan.w.cc.subchannels), cs \in ConnectivityState : SubchannelNotify(sc, cs)
    \/ WQRecv
    \/ WQRunResolverUpdate
    \/ WQRunSubchannelUpdate
    \/ WQRunWork

SpecCh == InitCh /\ [][NextCh]_vars

\* The resolver updates of the fair runs: the error variant, which ends the
\* task, and one list of endpoints.
ChUpdatesFair ==
    {u \in ChUpdates : u.kind = "Err" \/ (u.endpoints = <<<<"a1">>>> /\ u.service_config = None)}

NextChFair ==
    \/ \E t \in Threads : ResolverUpdateSendOf(t, ChUpdatesFair) \/ ResolverUpdateRecv(t)
    \/ \E t \in Threads : ScheduleWorkReplace(t) \/ ScheduleWorkSend(t)
    \/ \E sc \in Range(chan.w.cc.subchannels), cs \in ConnectivityState : SubchannelNotify(sc, cs)
    \/ WQRecv
    \/ WQRunResolverUpdate
    \/ WQRunSubchannelUpdate
    \/ WQRunWork

\* The runtime polls the work-queue task whenever it can run, and a thread
\* inside schedule_work goes on to its send.  Resolvers, subchannels and
\* callers of schedule_work act when they please.
SpecChFair ==
    /\ InitCh /\ [][NextChFair]_vars
    /\ WF_vars(WQRecv)
    /\ WF_vars(WQRunResolverUpdate)
    /\ WF_vars(WQRunSubchannelUpdate)
    /\ WF_vars(WQRunWork)
    /\ \A t \in Threads : WF_vars(ScheduleWorkSend(t))

\* ================================================ InternalSubchannelPool
\* InternalSubchannelPool is call.pool: the map from Subchannel to the state
\* of its InternalSubchannel and the connectivity_state watcher; its picker
\* watcher is watch.  call.rpc is one RPC inside InternalSubchannelPool::call:
\* its position, its iterator i, the picker p it was handed and the
\* subchannel it looked up.

\* The LbStates a policy publishes: LbState::initial, the failing picker of
\* the child policy, and pick_first's picker for a subchannel of the pool.
LbStates(subchannels) ==
    {LbState_initial}
    \cup {[connectivity_state |-> "TransientFailure", picker |-> DummyPicker(0)]}
    \cup {[connectivity_state |-> "Ready", picker |-> OneSubchannelPicker(sc)] :
             sc \in subchannels}

\* Picker::pick of the three pickers.
pick(p) ==
    CASE p.kind = "Queuing" -> [kind |-> "Queue"]
      [] p.kind = "Dummy" -> [kind |-> "Err", err |-> "not valid"]
      [] p.kind = "OneSubchannel" -> [kind |-> "Subchannel", subchannel |-> p.sc]

\* .expect(msg) on a pick: the Pick, or a panic with msg.
expect_pick(r, msg) ==
    IF r.kind = "Subchannel" THEN [panic |-> None, subchannel |-> r.subchannel]
    ELSE [panic |-> Some(msg)]

RpcIdle == [pc |-> "none"]

InitCall ==
    /\ Init_cm /\ Init_dp /\ Init_es /\ Init_rr /\ Init_id /\ Init_sc /\ Init_q /\ Init_pf /\ Init_wk /\ Init_cbm /\ Init_mgr
    /\ watch = Watcher_new
    /\ rx = [pc |-> "none", version |-> 0]
    /\ observed = <<>>
    /\ call = [pool |-> [subchannels |-> <<>>, connectivity_state |-> Watcher_new,
                         updating |-> None],
               rpc |-> RpcIdle, state |-> None]

\* InternalSubchannelPool::new_subchannel: the map gains an idle subchannel.
PoolNewSubchannel ==
    /\ Len(call.pool.subchannels) < MaxSubchannels
    /\ call' = [call EXCEPT !.pool.subchannels = Append(@, ISS_Idle)]
    /\ UNCHANGED <<watch, rx, observed, cmvars, dpvars, esvars, rrvars, idvars, scvars, qvars, pfvars, mvars>>

\* A subchannel of the pool connects (to_ready) or loses its connection
\* (to_idle).
PoolSubchannelState ==
    /\ \E sc \in DOMAIN call.pool.subchannels :
          call' = [call EXCEPT !.pool.subchannels[sc] =
                      IF @ = ISS_Idle THEN ISS_Ready(1) ELSE ISS_Idle]
    /\ UNCHANGED <<watch, rx, observed, cmvars, dpvars, esvars, rrvars, idvars, scvars, qvars, pfvars, mvars>>

\* Watcher::cur: a clone of the receiver, marked changed, is borrowed.
Watcher_cur(w) == borrow(Watcher_iter(w), w).x

\* InternalSubchannelPool::update_picker, its first statement:
\* self.picker.update(update.picker).  The work-queue task is the only
\* caller, so one call is under way at a time; updating is the
\* connectivity state it has still to store, with the publication it is of.
PoolUpdatePicker ==
    /\ Pubs < MaxPublications
    /\ call.pool.updating = None
    /\ \E update \in LbStates(DOMAIN call.pool.subchannels) :
          /\ watch' = Watcher_update(watch, [item |-> update.picker, pub |-> Pubs + 1])
          /\ call' = [call EXCEPT !.pool.updating =
                         Some([item |-> update.connectivity_state, pub |-> Pubs + 1])]
    /\ UNCHANGED <<rx, observed, cmvars, dpvars, esvars, rrvars, idvars, scvars, qvars, pfvars, mvars>>

\* update_picker, its second statement:
\* self.connectivity_state.update(update.connectivity_state).
PoolUpdateState ==
    /\ call.pool.updating # None
    /\ call' = [call EXCEPT !.pool.connectivity_state =
                   Watcher_update(@, call.pool.updating[1]),
                            !.pool.updating = None]
    /\ UNCHANGED <<watch, rx, observed, cmvars, dpvars, esvars, rrvars, idvars, scvars, qvars, pfvars, mvars>>

\* Channel::state on an application thread: connectivity_state.cur(), Idle
\* when nothing was stored.  state keeps what it returned and the
\* publication of the picker a call starting now would be handed.
ChannelState ==
    /\ LET c == Watcher_cur(call.pool.connectivity_state) IN
       call' = [call EXCEPT !.state =
                   Some([returned |-> IF c # None THEN c[1].item ELSE "Idle",
                         of |-> IF c # None THEN c[1].pub ELSE 0,
                         picker_of |-> Pubs])]
    /\ UNCHANGED <<watch, rx, observed, cmvars, dpvars, esvars, rrvars, idvars, scvars, qvars, pfvars, mvars>>

\* InternalSubchannelPool::call: let mut i = self.picker.iter().
CallIter ==
    /\ call.rpc.pc = "none"
    /\ call' = [call EXCEPT !.rpc = [pc |-> "changed", i |-> Watcher_iter(watch)]]
    /\ UNCHANGED <<watch, rx, observed, cmvars, dpvars, esvars, rrvars, idvars, scvars, qvars, pfvars, mvars>>

\* i.next(): self.rx.changed().await.
CallChanged ==
    /\ call.rpc.pc = "changed"
    /\ changed_ready(call.rpc.i, watch)
    /\ call' = [call EXCEPT !.rpc = [pc |-> "borrow", i |-> changed(call.rpc.i, watch)]]
    /\ UNCHANGED <<watch, rx, observed, cmvars, dpvars, esvars, rrvars, idvars, scvars, qvars, pfvars, mvars>>

\* i.next(): borrow_and_update; None loops inside next, Some(p) is returned.
CallBorrow ==
    /\ call.rpc.pc = "borrow"
    /\ LET b == borrow_and_update(call.rpc.i, watch) IN
       call' = [call EXCEPT !.rpc =
                   IF b.x = None THEN [pc |-> "changed", i |-> b.r]
                   ELSE [pc |-> "pick", i |-> b.r, p |-> b.x[1].item]]
    /\ UNCHANGED <<watch, rx, observed, cmvars, dpvars, esvars, rrvars, idvars, scvars, qvars, pfvars, mvars>>

\* p.pick(&request).expect(..).subchannel, then the lookup in the map:
\* scs.get(sc).expect("Illegal Subchannel in pick").
CallPick ==
    /\ call.rpc.pc = "pick"
    /\ LET r == expect_pick(pick(call.rpc.p),
                            "TODO: handle picker errors (queue or fail RPC)")
       IN  call' = [call EXCEPT !.rpc =
                       IF r.panic # None
                       THEN [pc |-> "panicked", msg |-> r.panic[1]]
                       ELSE IF r.subchannel \notin DOMAIN call.pool.subchannels
                       THEN [pc |-> "panicked", msg |-> "Illegal Subchannel in pick"]
                       ELSE [pc |-> "sc_call", sc |-> r.subchannel]]
    /\ UNCHANGED <<watch, rx, observed, cmvars, dpvars, esvars, rrvars, idvars, scvars, qvars, pfvars, mvars>>

\* InternalSubchannel::call: connected_transport().expect("todo: handle
\* !ready"), then the transport's call, which gives the response.
CallSubchannel ==
    /\ call.rpc.pc = "sc_call"
    /\ call' = [call EXCEPT !.rpc =
                   IF connected_transport(call.pool.subchannels[call.rpc.sc]) = None
                   THEN [pc |-> "panicked", msg |-> "todo: handle !ready"]
                   ELSE [pc |-> "returned", sc |-> call.rpc.sc]]
    /\ UNCHANGED <<watch, rx, observed, cmvars, dpvars, esvars, rrvars, idvars, scvars, qvars, pfvars, mvars>>

\* The RPC is over; the application makes the next one.
CallEnd ==
    /\ call.rpc.pc \in {"returned", "panicked"}
    /\ call' = [call EXCEPT !.rpc = RpcIdle]
    /\ UNCHANGED <<watch, rx, observed, cmvars, dpvars, esvars, rrvars, idvars, scvars, qvars, pfvars, mvars>>

NextCall ==
    \/ PoolNewSubchannel \/ PoolSubchannelState \/ PoolUpdatePicker \/ PoolUpdateState
    \/ ChannelState
    \/ CallIter \/ CallChanged \/ CallBorrow \/ CallPick \/ CallSubchannel \/ CallEnd

SpecCall == InitCall /\ [][NextCall]_vars

\* ==================================================== ChildManager::work
\* wk is a child manager seen from its work path: children,
\* children_requesting_work, and bookkeeping: asked, the live policy
\* instances that called schedule_work since work last served them; stale,
\* whether a reconciliation dropped an instance that had asked; last, the
\* handler that ran last; invoked, the [child_idx, policy] pairs the last
\* work called; panic, whether it indexed past the child list.

\* A scheduler that records the index of the asking child.
RecordingWorkScheduler_schedule_work(requesting, child_idx) ==
    requesting \cup {child_idx}

\* NopWorkScheduler::schedule_work, the scheduler every child is built with.
NopWorkScheduler_schedule_work(requesting, child_idx) == requesting

\* ChildManager::work: swap the set out, then index self.children with each
\* entry and call work on its policy.
CM_work(chs, requesting) ==
    [children_requesting_work |-> {},
     panic   |-> \E child_idx \in requesting : child_idx \notin DOMAIN chs,
     invoked |-> {[child_idx |-> child_idx, policy |-> chs[child_idx].policy] :
                     child_idx \in requesting \cap DOMAIN chs}]

InitWk ==
    /\ Init_cm /\ Init_dp /\ Init_es /\ Init_rr /\ Init_id /\ Init_sc
    /\ Init_w /\ Init_q /\ Init_pf /\ Init_cbm /\ Init_mgr
    /\ wk = [children |-> <<>>, children_requesting_work |-> {}, asked |-> {},
             stale |-> FALSE, last |-> "new", invoked |-> {}, panic |-> FALSE]

\* ChildManager::resolver_update rebuilds the child list; it does not touch
\* children_requesting_work.
WkResolverUpdate ==
    /\ ~wk.panic
    /\ \E resolver_update \in ResolverUpdates :
         LET r == CM_reconcile([children |-> wk.children,
                                subchannel_child_map |-> <<>>], resolver_update)
         IN  wk' = [wk EXCEPT !.children = r.children,
                              !.asked = @ \cap Policies(r.children),
                              !.stale = @ \/ (wk.asked \ Policies(r.children) # {}),
                              !.last = "resolver_update",
                              !.invoked = {}]
    /\ UNCHANGED <<cbm, mgr, cmvars, dpvars, esvars, rrvars, idvars, scvars, wvars, qvars, pfvars>>

\* A child policy calls schedule_work on the scheduler it was built with.
WkScheduleWork ==
    /\ ~wk.panic
    /\ \E child_idx \in DOMAIN wk.children :
         wk' = [wk EXCEPT !.children_requesting_work =
                             NopWorkScheduler_schedule_work(@, child_idx),
                          !.asked = @ \cup {wk.children[child_idx].policy},
                          !.last = "schedule_work",
                          !.invoked = {}]
    /\ UNCHANGED <<cbm, mgr, cmvars, dpvars, esvars, rrvars, idvars, scvars, wvars, qvars, pfvars>>

\* ChildManager::work.
WkWork ==
    /\ ~wk.panic
    /\ LET r == CM_work(wk.children, wk.children_requesting_work) IN
       wk' = [wk EXCEPT !.children_requesting_work = r.children_requesting_work,
                        !.asked = @ \ {e.policy : e \in r.invoked},
                        !.last = "work",
                        !.invoked = r.invoked,
                        !.panic = r.panic]
    /\ UNCHANGED <<cbm, mgr, cmvars, dpvars, esvars, rrvars, idvars, scvars, wvars, qvars, pfvars>>

NextWk == WkResolverUpdate \/ WkScheduleWork \/ WkWork

SpecWk == InitWk /\ [][NextWk]_vars

\* ================================================ ChildManagerCallbacks
\* The callback-flavoured child manager keeps children and
\* subchannel_child_map in Inner behind a std Mutex.  cbm holds Inner, the
\* mutex (locked), the position of the one thread that calls into the
\* manager (pc), the child being called (child_idx), the subchannels that
\* call has created so far (created), the subchannels whose callback the
\* channel holds (registered) and the id counter (next).

CbInner == [children |-> cbm.children, subchannel_child_map |-> cbm.subchannel_child_map]

\* Inner::resolve_child_controller: the created subchannels go to the child.
\* No picker update reaches the manager's wrapper in this model.
Cb_resolve_child_controller(inner, created, child_idx) ==
    resolve_child_controller(inner,
        [created_subchannels |-> created, picker_update |-> None], child_idx)

InitCb ==
    /\ Init_cm /\ Init_dp /\ Init_es /\ Init_rr /\ Init_id /\ Init_sc
    /\ Init_w /\ Init_q /\ Init_pf /\ Init_wk /\ Init_mgr
    /\ cbm = [children |-> <<>>, subchannel_child_map |-> <<>>, locked |-> FALSE,
              pc |-> "idle", child_idx |-> 0, created |-> <<>>, registered |-> {},
              next |-> 0, last |-> "new"]

\* ChildManagerCallbacks::resolver_update up to the fan-out: lock inner,
\* shard (an error returns and drops the guard), rebuild the children.
CbResolverUpdate ==
    /\ cbm.pc = "idle" /\ ~cbm.locked
    /\ \E resolver_update \in ResolverUpdates :
         LET r == CM_reconcile(CbInner, resolver_update) IN
         cbm' = IF r.ok
                THEN [cbm EXCEPT !.locked = TRUE, !.pc = "fanout", !.child_idx = 1,
                                 !.children = r.children,
                                 !.subchannel_child_map = r.subchannel_child_map,
                                 !.last = "resolver_update"]
                ELSE [cbm EXCEPT !.last = "sharding error"]
    /\ UNCHANGED <<wk, mgr, cmvars, dpvars, esvars, rrvars, idvars, scvars, wvars, qvars, pfvars>>

\* The fan-out loop body: policy.resolver_update of the next child is
\* entered; the guard `inner` is still alive.
CbChildCall ==
    /\ cbm.pc = "fanout"
    /\ cbm.child_idx <= Len(cbm.children)
    /\ cbm' = [cbm EXCEPT !.pc = "child", !.created = <<>>]
    /\ UNCHANGED <<wk, mgr, cmvars, dpvars, esvars, rrvars, idvars, scvars, wvars, qvars, pfvars>>

\* Child code calls new_subchannel on the wrapper it was handed: the channel
\* stores the closure and the wrapper notes the subchannel.
CbNewSubchannel ==
    /\ cbm.pc \in {"child", "callback"}
    /\ cbm.next < MaxSubchannels
    /\ cbm' = [cbm EXCEPT !.created = Append(@, cbm.next),
                          !.registered = @ \cup {cbm.next},
                          !.next = @ + 1]
    /\ UNCHANGED <<wk, mgr, cmvars, dpvars, esvars, rrvars, idvars, scvars, wvars, qvars, pfvars>>

\* Child code that holds a clone of the manager calls child_states on it:
\* self.inner.lock() on a std Mutex the same thread holds deadlocks or
\* panics.
CbReenter ==
    /\ cbm.pc \in {"child", "callback"}
    /\ cbm.locked
    /\ \E outcome \in {"deadlocked", "panicked"} :
         cbm' = [cbm EXCEPT !.pc = outcome]
    /\ UNCHANGED <<wk, mgr, cmvars, dpvars, esvars, rrvars, idvars, scvars, wvars, qvars, pfvars>>

\* The child's resolver_update returned: resolve_child_controller, next child.
CbChildReturn ==
    /\ cbm.pc = "child"
    /\ LET inner == Cb_resolve_child_controller(CbInner, cbm.created, cbm.child_idx) IN
       cbm' = [cbm EXCEPT !.pc = "fanout", !.child_idx = @ + 1, !.created = <<>>,
                          !.children = inner.children,
                          !.subchannel_child_map = inner.subchannel_child_map]
    /\ UNCHANGED <<wk, mgr, cmvars, dpvars, esvars, rrvars, idvars, scvars, wvars, qvars, pfvars>>

\* End of the fan-out: Ok(()) and the guard is dropped.
CbResolverUpdateEnd ==
    /\ cbm.pc = "fanout"
    /\ cbm.child_idx > Len(cbm.children)
    /\ cbm' = [cbm EXCEPT !.pc = "idle", !.locked = FALSE, !.child_idx = 0]
    /\ UNCHANGED <<wk, mgr, cmvars, dpvars, esvars, rrvars, idvars, scvars, wvars, qvars, pfvars>>

\* The channel runs the closure new_subchannel registered for a subchannel:
\* lock inner, look the subchannel up, return if it has no owner, else call
\* the child's closure.
CbCallback ==
    /\ cbm.pc = "idle" /\ ~cbm.locked
    /\ \E subchannel \in cbm.registered :
         cbm' = IF subchannel \in DOMAIN cbm.subchannel_child_map
                THEN [cbm EXCEPT !.locked = TRUE, !.pc = "callback",
                                 !.child_idx = cbm.subchannel_child_map[subchannel],
                                 !.created = <<>>, !.last = "subchannel_update"]
                ELSE [cbm EXCEPT !.last = "ignored"]
    /\ UNCHANGED <<wk, mgr, cmvars, dpvars, esvars, rrvars, idvars, scvars, wvars, qvars, pfvars>>

\* The child's closure returned: resolve_child_controller, guard dropped.
CbCallbackReturn ==
    /\ cbm.pc = "callback"
    /\ LET inner == Cb_resolve_child_controller(CbInner, cbm.created, cbm.child_idx) IN
       cbm' = [cbm EXCEPT !.pc = "idle", !.locked = FALSE, !.child_idx = 0,
                          !.created = <<>>,
                          !.children = inner.children,
                          !.subchannel_child_map = inner.subchannel_child_map]
    /\ UNCHANGED <<wk, mgr, cmvars, dpvars, esvars, rrvars, idvars, scvars, wvars, qvars, pfvars>>

NextCb ==
    \/ CbResolverUpdate \/ CbChildCall \/ CbNewSubchannel \/ CbReenter
    \/ CbChildReturn \/ CbResolverUpdateEnd \/ CbCallback \/ CbCallbackReturn

SpecCb == InitCb /\ [][NextCb]_vars

\* ====================================================== properties
\* The aggregate the precedence rule READY > CONNECTING > IDLE >
\* TRANSIENT_FAILURE assigns to a set of states.
Precedence(S) ==
    IF "Ready" \in S THEN "Ready"
    ELSE IF "Connecting" \in S THEN "Connecting"
    ELSE IF "Idle" \in S THEN "Idle"
    ELSE "TransientFailure"

\* C1: effective_state of a finite sequence of connectivity states, the
\* empty one included, is READY if any element is READY, else CONNECTING
\* if any is CONNECTING, else IDLE if any is IDLE, else TRANSIENT_FAILURE;
\* a result computed on one ordering is the result of every permutation.
C1_EffectiveStatePrecedence ==
    es_result # "none" =>
        /\ es_result = Precedence(Range(es_input))
        /\ es_result = effective_state(es_input)

\* A result computed with CONNECTING before IDLE and then carried to a
\* permutation that ends in TRANSIENT_FAILURE.
C1_Witness ==
    /\ es_result = "Connecting"
    /\ es_input = <<"Idle", "Connecting", "Idle", "TransientFailure">>

\* C3: with N >= 1 children and M completed picks, M a multiple of N, issued
\* from one or several threads, every child has been invoked exactly M/N
\* times, and the k-th cursor value selects child k mod N.
C3_RoundRobinEven ==
    LET N == Len(rrp.children)
        M == rrp.idx
    IN  (/\ thr # <<>>
         /\ \A t \in DOMAIN thr : thr[t].pc = "ready"
         /\ M % N = 0)
        => /\ \A c \in 1..N :
                Cardinality({e \in invoked : e.child = c}) = M \div N
           /\ \A e \in invoked : e.child = (e.idx % N) + 1
           /\ {e.idx : e \in invoked} = 0..(M - 1)

\* Three children, six picks completed, none in flight.
C3_Witness ==
    /\ Len(rrp.children) = 3
    /\ rrp.idx = 6
    /\ thr # <<>>
    /\ \A t \in DOMAIN thr : thr[t].pc = "ready"
    /\ Cardinality(invoked) = 6

\* ------------------------------------------------- child manager claims
\* A step that is the reconciling part of a successful resolver_update.
Reconciled == frame.pc = "idle" /\ frame'.pc = "next"

OwnedBy(m, idx) == {s \in DOMAIN m : m[s] = idx}

\* C4: in resolver_update, for every identifier present both in the old
\* child list and in the new sharded sequence, the child after
\* reconciliation holds the same policy instance (no build for it) and the
\* same LbState as before, and every subchannel mapped to the child's old
\* index is mapped to its new index.
C4_MatchedChildrenKept ==
    [][Reconciled =>
         \A i \in DOMAIN children, j \in DOMAIN children' :
            children[i].identifier = children'[j].identifier =>
               /\ children'[j].policy = children[i].policy
               /\ children'[j].state = children[i].state
               /\ OwnedBy(subchannel_child_map, i) \subseteq OwnedBy(subchannel_child_map', j)]_vars

\* C5: in resolver_update, every sharded entry whose identifier matches no
\* old child gets a policy built for it alone, starts with LbState::initial()
\* (CONNECTING, a picker that queues), and owns no subchannel before its own
\* resolver_update runs.
C5_FreshChildInitial ==
    [][Reconciled =>
         \A j \in DOMAIN children' :
            (\A i \in DOMAIN children : children[i].identifier # children'[j].identifier) =>
               /\ children'[j].policy \notin Policies(children)
               /\ \A k \in DOMAIN children' \ {j} : children'[k].policy # children'[j].policy
               /\ children'[j].state = LbState_initial
               /\ children'[j].state.connectivity_state = "Connecting"
               /\ LeafPick(children'[j].state.picker) = "Queue"
               /\ OwnedBy(subchannel_child_map', j) = {}]_vars

\* The fan-out is about to start and the second child is fresh, next to a
\* reused child that has reported and owns a subchannel.
C5_Witness ==
    /\ frame.pc = "next" /\ frame.child_idx = 1
    /\ Len(children) = 2
    /\ children[1].state # LbState_initial
    /\ OwnedBy(subchannel_child_map, 1) # {}
    /\ children[2].state = LbState_initial
    /\ children[2].identifier # children[1].identifier

\* C6: after any sequence of resolver_update, subchannel_update and work
\* calls, every entry of the ownership map points at an existing child, and
\* that child is the one whose policy created the subchannel; nothing a
\* discarded child created stays in the map.
C6_OwnershipMapLive ==
    \A s \in DOMAIN subchannel_child_map :
        /\ subchannel_child_map[s] \in 1..Len(children)
        /\ s \in DOMAIN created_by
        /\ children[subchannel_child_map[s]].policy = created_by[s]

\* One child is left after another was discarded; the survivor moved from
\* index 2 to index 1 with its subchannel, the other subchannel is gone.
C6_Witness ==
    /\ frame.pc = "next"
    /\ Len(children) = 1
    /\ Len(cc.subchannels) = 2
    /\ DOMAIN subchannel_child_map = {cc.subchannels[2]}
    /\ children[1].policy = 2

\* C7: when the sharder returns an error, resolver_update returns that
\* error, the child list (policies, LbStates) and the ownership map stay as
\* they were, no child policy is called and nothing is built.
C7_ShardErrorNoEffect ==
    [][\A update \in ResolverUpdates :
          (ResolverUpdateBeginWith(update) /\ ~shard_update(update).ok) =>
             /\ frame' = Returning("resolver_update", shard_update(update).err, 0, 0)
             /\ UNCHANGED <<children, subchannel_child_map, cc, NEXT_SUBCHANNEL_ID>>]_vars

\* A rejected update has just returned over two children that own
\* subchannels and have reported.
C7_Witness ==
    /\ frame.pc = "return" /\ frame.op = "resolver_update"
    /\ frame.result = "bad update"
    /\ Len(children) = 2
    /\ DOMAIN subchannel_child_map # {}
    /\ children[1].state # LbState_initial

\* C8 as stated: the first error of a child's resolver_update ends the
\* fan-out; later children are not updated and the parent returns the error.
C8_FirstErrorShortCircuits ==
    (frame.pc = "return" /\ frame.op = "resolver_update" /\ frame.child_err # 0) =>
        /\ frame.result # "Ok"
        /\ frame.updated = frame.child_err

\* C8: an error of a child's resolver_update is discarded: every child of
\* the sharded sequence is still updated, in order, and the parent returns
\* Ok.
C8_ChildErrorDiscarded ==
    /\ (frame.pc = "return" /\ frame.op = "resolver_update" /\ frame.child_err # 0) =>
          /\ frame.result = "Ok"
          /\ frame.updated = Len(children)
    /\ (frame.pc = "next" /\ frame.child_err # 0) =>
          frame.child_idx > frame.child_err

\* The first of two children failed and the call returns after both.
C8_Witness ==
    /\ frame.pc = "return" /\ frame.op = "resolver_update"
    /\ frame.child_err = 1
    /\ frame.updated = 2

Forwarded(calls) == SelectSeq(calls, LAMBDA c : c.op # "update_picker")

RECURSIVE LastUpdate(_)
LastUpdate(calls) ==
    IF calls = <<>> THEN None
    ELSE IF calls[Len(calls)].op = "update_picker"
         THEN Some(calls[Len(calls)].state)
         ELSE LastUpdate(SubSeq(calls, 1, Len(calls) - 1))

\* C9: the wrapping controller forwards each new_subchannel and
\* request_resolution of the child to the parent controller exactly once,
\* hands the parent's subchannel back unchanged, and never forwards
\* update_picker, which is only stored for the calling child.
C9_WrapperForwarding ==
    frame.pc = "resolve" =>
        LET fwd == Forwarded(frame.calls)
            news == SelectSeq(cc.calls, LAMBDA c : c.op = "new_subchannel")
            last == LastUpdate(frame.calls)
        IN  /\ Len(cc.calls) = Len(fwd)
            /\ \A i \in DOMAIN fwd : cc.calls[i].op = fwd[i].op
            /\ frame.returned = [i \in DOMAIN news |-> news[i].ret]
            /\ frame.channel_controller.created_subchannels = frame.returned
            /\ cc.picker = None
            /\ IF last = None
               THEN frame.channel_controller.picker_update = None
               ELSE /\ frame.channel_controller.picker_update # None
                    /\ frame.channel_controller.picker_update[1].connectivity_state = last[1]

\* A child created a subchannel and then called update_picker.
C9_Witness ==
    /\ frame.pc = "resolve"
    /\ Len(frame.calls) = 2
    /\ frame.calls[1].op = "new_subchannel"
    /\ frame.calls[2].op = "update_picker"
    /\ Len(cc.calls) = 1

\* C10: a child's stored LbState changes only when a callback delivered to
\* that child, in which it called update_picker, is resolved, and it is then
\* the last LbState passed; other children keep theirs, and a callback
\* without update_picker changes nothing.
C10_StateOnlyByOwnUpdate ==
    [][LET last == LastUpdate(frame.calls) IN
       /\ \A i \in DOMAIN children, j \in DOMAIN children' :
             (children[i].policy = children'[j].policy
                 /\ children[i].state # children'[j].state) =>
                (/\ frame.pc = "resolve" /\ frame.child_idx = i /\ j = i
                 /\ last # None)
       /\ (frame.pc = "resolve" /\ frame'.pc # "resolve") =>
             /\ Len(children') = Len(children)
             /\ (last # None =>
                   children'[frame.child_idx].state =
                       [connectivity_state |-> last[1],
                        picker |-> DummyPicker(frame.policy)])
             /\ (last = None =>
                   children'[frame.child_idx].state = children[frame.child_idx].state)
      ]_vars

\* The second child's callback, with two update_picker calls, has been
\* resolved: it holds the last one, the first child still its own.
C10_Witness ==
    /\ frame.pc = "return" /\ frame.op = "subchannel_update"
    /\ Len(children) = 2
    /\ children[2].state.connectivity_state = "TransientFailure"
    /\ children[1].state.connectivity_state = "Ready"

\* C2: the round-robin picker never takes a remainder by a zero-length
\* child list: whenever no child is eligible for the aggregate state (as
\* after a resolver update that shards into no children, aggregate
\* TRANSIENT_FAILURE) the published picker is a queuing or failing one, and
\* no pick on a published picker divides by zero.
C2_NoEmptyRoundRobin ==
    /\ (cc.picker # None /\ cc.picker[1].picker.kind = "RR") =>
          Len(cc.picker[1].picker.children) > 0
    /\ pick_result # "panic"

\* C11: a subchannel-state update for a subchannel created by a child that
\* is still live (whatever callback it was created in, and however often
\* the child has been carried over by reconciliation since) is delivered to
\* that child's policy, once, and to no other child.
C11_UpdateRoutedToCreator ==
    [][\A s \in Range(cc.subchannels) :
          (SubchannelUpdateWith(s) /\ s \in DOMAIN created_by
              /\ created_by[s] \in Policies(children)) =>
             /\ ~panicked'
             /\ frame'.pc = "resolve" /\ frame'.op = "subchannel_update"
             /\ frame'.policy = created_by[s]
             /\ frame'.child_idx = subchannel_child_map[s]
             /\ children[frame'.child_idx].policy = created_by[s]]_vars

\* The update reaches, at index 1, the policy that was built second: its
\* child has moved in a reconciliation since it created the subchannel.
C11_Witness ==
    /\ frame.pc = "resolve" /\ frame.op = "subchannel_update"
    /\ frame.child_idx = 1 /\ frame.policy = 2
    /\ \E s \in DOMAIN created_by : created_by[s] = 2

\* ---------------------------------------------- delegating policy claims
Published(calls) == SelectSeq(calls, LAMBDA c : c.op = "update_picker")

ChildStates(chs) == [i \in DOMAIN chs |-> chs[i].state.connectivity_state]

\* A step in which a call on the delegating policy succeeds.
DPSucceeds ==
    \/ DPWork
    \/ DPSubchannelUpdate /\ ~panicked'
    \/ \E update \in ResolverUpdates :
          DPResolverUpdateWith(update) /\ shard_update(update).ok

\* A step in which resolver_update on the delegating policy fails.
DPFails ==
    \E update \in ResolverUpdates :
        DPResolverUpdateWith(update) /\ ~shard_update(update).ok

\* C12: every successful resolver_update, subchannel_update or work on the
\* delegating policy makes exactly one update_picker call on the channel's
\* controller, after all children it touched were updated, with the
\* effective_state of the children's stored states at that moment; a
\* resolver_update that fails publishes nothing.
C12_PublishOncePerCall ==
    [][/\ DPSucceeds =>
            /\ Len(Published(cc'.calls)) = 1
            /\ cc'.calls[Len(cc'.calls)].op = "update_picker"
            /\ cc'.calls[Len(cc'.calls)].state.connectivity_state
                  = effective_state(ChildStates(children'))
            /\ cc'.picker = Some(cc'.calls[Len(cc'.calls)].state)
       /\ DPFails =>
            /\ Published(cc'.calls) = <<>>
            /\ cc'.picker = cc.picker
            /\ children' = children
      ]_vars

\* A resolver update over two children: each created its subchannel, then
\* the one publication followed.
C12_Witness ==
    /\ Len(children) = 2
    /\ Len(cc.calls) = 3
    /\ cc.calls[1].op = "new_subchannel" /\ cc.calls[2].op = "new_subchannel"
    /\ cc.calls[3].op = "update_picker"
    /\ cc.calls[3].state.connectivity_state = "Connecting"

\* The indices of the children whose stored state is st, and the k-th of
\* them in child order.
InState(st) == {i \in DOMAIN children : children[i].state.connectivity_state = st}

Nth(S, k) == CHOOSE i \in S : Cardinality({j \in S : j <= i}) = k

\* C13: when the aggregate is READY or TRANSIENT_FAILURE, the published
\* picker round-robins over exactly the pickers of the children whose stored
\* state equals the aggregate, in child order, each once, and over no picker
\* of a child in another state.
C13_CompositeOverEligible ==
    (cc.picker # None
        /\ effective_state(ChildStates(children)) \in {"Ready", "TransientFailure"}) =>
       LET agg == effective_state(ChildStates(children))
           p == cc.picker[1].picker
       IN  /\ cc.picker[1].connectivity_state = agg
           /\ p.kind = "RR"
           /\ Len(p.children) = Cardinality(InState(agg))
           /\ \A k \in DOMAIN p.children :
                 p.children[k] = children[Nth(InState(agg), k)].state.picker

\* The second child is READY, the first failed: the picker holds the second
\* child's picker alone.
C13_Witness ==
    /\ Len(children) = 2
    /\ children[1].state.connectivity_state = "TransientFailure"
    /\ children[2].state.connectivity_state = "Ready"
    /\ cc.picker # None
    /\ cc.picker[1].picker.kind = "RR"
    /\ cc.picker[1].picker.children = <<children[2].state.picker>>

\* C14: when the aggregate is CONNECTING or IDLE the published picker is a
\* queuing picker: every pick on it returns Queue, never a subchannel and
\* never an error.
C14_QueuingWhenNotReady ==
    [][/\ (cc'.picker # None
             /\ effective_state(ChildStates(children')) \in {"Connecting", "Idle"}) =>
            /\ cc'.picker[1].connectivity_state = effective_state(ChildStates(children'))
            /\ cc'.picker[1].picker = QueuingPicker
            /\ LeafPick(cc'.picker[1].picker) = "Queue"
       /\ (DPPick /\ cc.picker[1].connectivity_state \in {"Connecting", "Idle"}) =>
            pick_result' = "Queue"
      ]_vars

\* One child IDLE, the other failed: aggregate IDLE, and a pick on the
\* published picker was queued.
C14_Witness ==
    /\ Len(children) = 2
    /\ children[1].state.connectivity_state = "TransientFailure"
    /\ children[2].state.connectivity_state = "Idle"
    /\ cc.picker # None
    /\ cc.picker[1].connectivity_state = "Idle"
    /\ pick_result = "Queue"

\* C15: every Subchannel::new, racing ones included, returns a handle whose
\* id differs from that of every handle created before (the counter stays
\* below its wrap at 2^32), and two handles are equal exactly when their ids
\* are: a clone at any depth equals its original, and handles from separate
\* creations never compare equal.
C15_HandleIdentity ==
    /\ \A a, b \in handles :
          /\ Subchannel_eq(a, b) <=> a.id = b.id
          /\ Subchannel_eq(a, b) <=> a.origin = b.origin
    /\ \A t \in DOMAIN id_thr :
          id_thr[t].pc = "fetched" =>
             /\ \A h \in handles : h.id # id_thr[t].id
             /\ \A u \in DOMAIN id_thr \ {t} :
                   id_thr[u].pc = "fetched" => id_thr[u].id # id_thr[t].id

\* Three creations, one cloned twice over, all handles in existence.
C15_Witness ==
    /\ Cardinality({h.origin : h \in handles}) = 3
    /\ \E h \in handles : h.depth = 2
    /\ \E a, b \in handles : a.origin = b.origin /\ a.depth # b.depth /\ Subchannel_eq(a, b)

\* Tasks whose connection attempt is under way: spawned and not yet READY,
\* failed or cancelled.
InFlight == {k \in DOMAIN tasks : tasks[k].pc \in {"notified", "connect", "to_ready"}}

\* C16: connect starts a connection attempt only when the subchannel is
\* IDLE and changes nothing in CONNECTING, READY and TRANSIENT_FAILURE;
\* however the calls interleave, at most one attempt is in flight.
C16_SingleAttempt ==
    /\ [](Cardinality(InFlight) <= 1)
    /\ [][\A t \in Threads :
            ConnectMatch(t) =>
               IF isc.state = "Idle"
               THEN Len(tasks') = Len(tasks) + 1
               ELSE tasks' = tasks /\ isc' = isc /\ listener' = listener
         ]_vars

\* One thread has started an attempt and the other one's connect found the
\* subchannel CONNECTING and returned.
C16_Witness ==
    /\ isc.state = "Connecting"
    /\ \E t, u \in DOMAIN callers :
          callers[t].last = "started" /\ callers[u].last = "noop"
    /\ Cardinality(InFlight) = 1

\* The state changes the subchannel state machine admits.
AllowedTransitions ==
    {<<"Idle", "Connecting">>, <<"Connecting", "Ready">>,
     <<"Connecting", "TransientFailure">>, <<"Ready", "Idle">>,
     <<"TransientFailure", "Connecting">>}

\* C17: the subchannel is created IDLE; every change of its state is one of
\* IDLE->CONNECTING, CONNECTING->READY, CONNECTING->TRANSIENT_FAILURE,
\* READY->IDLE, TRANSIENT_FAILURE->CONNECTING; and READY is written only
\* over the CONNECTING of the very attempt that produced the connection.
C17_LegalTransitions ==
    /\ (tasks = <<>> => isc.state = "Idle")
    /\ [][/\ isc'.state # isc.state =>
               <<isc.state, isc'.state>> \in AllowedTransitions
          /\ (isc'.state = "Ready" /\ isc' # isc) =>
               /\ isc.state = "Connecting"
               /\ tasks[isc.ah].svc = isc'.svc
               /\ tasks[isc.ah].pc = "to_ready"
         ]_vars

\* The second attempt has reached READY: the machine went once round
\* IDLE, CONNECTING, READY, IDLE and on to READY again.
C17_Witness ==
    /\ Len(tasks) = 2
    /\ isc.state = "Ready" /\ isc.svc = tasks[2].svc
    /\ tasks[1].pc = "done"

\* Tasks whose to_ready has stored READY, respectively called the listener.
StoredReady ==
    {k \in DOMAIN tasks : tasks[k].result = "ok" /\ tasks[k].pc # "to_ready"}
NotifiedReady ==
    {k \in StoredReady : tasks[k].pc # "ready_listener"}

\* C18: when an attempt succeeds the state becomes READY holding the
\* connected transport, the listener is called exactly once with READY, and
\* the transport stays stored for as long as it has not signalled
\* disconnection.
C18_ReadyHoldsTransport ==
    /\ [](\A k \in StoredReady :
             conn[tasks[k].svc] = "up" =>
                /\ isc.state = "Ready"
                /\ connected_transport(isc) = Some(tasks[k].svc))
    /\ [](Cardinality(NotifiedReady) =
             Len(SelectSeq(listener, LAMBDA st : st.connectivity_state = "Ready")))
    /\ [][\A k \in DOMAIN tasks :
             TaskToReadyStore(k) =>
                /\ isc'.state = "Ready"
                /\ connected_transport(isc') = Some(tasks[k].svc)
                /\ tasks[k].svc \in DOMAIN conn
         ]_vars
    /\ \A k \in 1..MaxAttempts :
          (k \in DOMAIN tasks /\ tasks[k].result = "ok") ~> (k \in NotifiedReady)

\* The first attempt succeeded, the listener has heard READY once, and the
\* connection is still up and stored.
C18_Witness ==
    /\ 1 \in NotifiedReady
    /\ conn[tasks[1].svc] = "up"
    /\ connected_transport(isc) = Some(tasks[1].svc)
    /\ listener = <<SubchannelState("Ready")>>

\* C19: when the connection held by a READY subchannel signals that it is
\* down, the state eventually becomes IDLE and the listener is told IDLE, so
\* that a later connect can start a new attempt.
C19_DisconnectLeadsToIdle ==
    \A k \in 1..MaxAttempts :
       (/\ k \in StoredReady
        /\ conn[tasks[k].svc] = "down"
        /\ connected_transport(isc) = Some(tasks[k].svc))
       ~> (/\ k \in DOMAIN tasks
           /\ connected_transport(isc) # Some(tasks[k].svc)
           /\ tasks[k].pc = "done")

\* C20: when an attempt fails the state becomes TRANSIENT_FAILURE and the
\* listener is told so with the error in last_connection_error; the failure
\* neither panics nor leaves the subchannel in CONNECTING.
C20_FailureGoesTransientFailure ==
    \A k \in DOMAIN tasks :
       tasks[k].result = "err" =>
          /\ tasks[k].pc # "panicked"
          /\ ~(isc.state = "Connecting" /\ isc.ah = k)

\* C21: a consumer calling WatcherIter.next again and again while a producer
\* calls Watcher.update sees a subsequence of the publications in publication
\* order, never the same publication twice, each value it gets is the newest
\* published when it read (so a value is skipped only when superseded), and
\* it eventually sees the last publication.
C21_WatcherFreshness ==
    /\ [](\A i \in DOMAIN observed :
            /\ observed[i].item.pub = observed[i].latest
            /\ \A j \in DOMAIN observed : i < j => observed[i].item.pub < observed[j].item.pub)
    /\ \A n \in 1..MaxPublications :
          (Pubs = n) ~>
             (Pubs > n \/ (observed # <<>> /\ observed[Len(observed)].item.pub = n))

\* The consumer saw the first publication, missed the second and the third,
\* which a newer one overtook, and saw the fourth.
C21_Witness ==
    /\ Len(observed) = 2
    /\ observed[1].item.pub = 1
    /\ observed[2].item.pub = 4

\* C25: pick_first's resolver_update returns "no endpoints" for an update
\* without endpoints and "no addresses" when the first endpoint has no
\* address; either way it creates no subchannel, publishes no picker and
\* keeps its subchannel and pending address lists, and a later valid update
\* is accepted.
C25_ValidationErrorsHarmless ==
    [][PFResolverUpdateStep =>
          LET u == pf_result'.update IN
          u.kind = "Data" =>
             /\ u.endpoints = <<>> =>
                   /\ pf_result'.result = Err("no endpoints")
                   /\ pf' = pf /\ pfw' = pfw
             /\ (u.endpoints # <<>> /\ u.endpoints[1] = <<>>) =>
                   /\ pf_result'.result = Err("no addresses")
                   /\ pf' = pf /\ pfw' = pfw
             /\ (u.endpoints # <<>> /\ u.endpoints[1] # <<>>) =>
                   /\ pf_result'.result = Ok
                   /\ Len(pf'.subchannels) = 1
                   /\ pf'.subchannels[1] \notin Range(pfw.cc.subchannels)
    ]_vars

\* A resolver update failed and the next one was accepted; the policy has
\* created two subchannels by now.
C25_Witness ==
    /\ pf_result.op = "resolver_update"
    /\ pf_result.result = Ok
    /\ pf_result.after_error
    /\ Len(pfw.cc.subchannels) >= 2

\* The text is one well-formed JSON value, respectively one JSON object.
WellFormedJSON(t) == SkipValue(t, 1) = Len(t) + 1
IsJSONObject(t) == WellFormedJSON(t) /\ t[1] = "{"

Parsed == pc_result.op = "parse_config"

\* C27 as stated: parse_config returns an error for every text that is not
\* a well-formed JSON object, and for "{}" a config with shuffleAddressList
\* unset, which the policy reads as false.
C27_OnlyObjectsAccepted ==
    Parsed =>
       /\ ~IsJSONObject(pc_input) => ~pc_result.result.ok
       /\ pc_input = <<"{", "}">> =>
             /\ pc_result.result.ok
             /\ pc_result.result.config[1].shuffle_address_list = None
             /\ shuffle_addresses(pc_result.result.config) = FALSE

\* C27 amended: parse_config returns an error, and never anything but an
\* error or a config, for every text that is not well-formed JSON, for every
\* JSON value that is neither an object nor an array, and for a
\* shuffleAddressList of the wrong type; an array is accepted exactly when
\* it is [true], [false] or [null], its element read as the field; "{}" gives a
\* config with shuffleAddressList unset, which the policy reads as false.
C27_MalformedRejected ==
    Parsed =>
       /\ pc_result.result.ok \in BOOLEAN
       /\ ~WellFormedJSON(pc_input) => ~pc_result.result.ok
       /\ (pc_input # <<>> /\ pc_input[1] \notin {"{", "["}) => ~pc_result.result.ok
       /\ (/\ Tok(pc_input, 1) = "{" /\ Tok(pc_input, 2) = "key"
           /\ Tok(pc_input, 3) = ":" /\ Tok(pc_input, 4) \notin {"true", "false", "null"})
            => ~pc_result.result.ok
       /\ (pc_input # <<>> /\ pc_input[1] = "[") =>
             (pc_result.result.ok <=>
                 pc_input \in {<<"[", v, "]">> : v \in {"true", "false", "null"}})
       /\ pc_input = <<"{", "}">> =>
             /\ pc_result.result.ok
             /\ pc_result.result.config[1].shuffle_address_list = None
             /\ shuffle_addresses(pc_result.result.config) = FALSE

\* parse_config has rejected a text that opens an object and never closes
\* it with the field in place.
C27_Witness ==
    /\ Parsed
    /\ pc_input = <<"{", "key", ":", "true">>
    /\ ~pc_result.result.ok

\* The published picker routes to subchannel sc.
RoutesTo(w, sc) ==
    /\ w.cc.picker # None
    /\ w.cc.picker[1].picker = OneSubchannelPicker(sc)

\* C28: once a subchannel that the policy offers in its picker goes from
\* READY to IDLE, the policy publishes a new LbState that no longer routes
\* to that subchannel.
C28_IdleSubchannelWithdrawn ==
    [][\A sc \in Range(pfw.cc.subchannels) :
          (/\ pf_result'.op = "subchannel_update"
           /\ pf_result' # pf_result
           /\ pf_result'.subchannel = sc
           /\ pf_result'.state = "Idle"
           /\ RoutesTo(pfw, sc))
          => ~RoutesTo(pfw', sc)
    ]_vars

\* Work invocations sent or about to be sent, and not yet started.
WorkQueued ==
    Len(SelectSeq(queue, LAMBDA item : item.kind = "work"))
    + Cardinality({t \in DOMAIN sched : sched[t] = "replaced"})

\* C22: however schedule_work calls from several threads interleave with
\* the work-queue task, at most one work invocation is queued and not yet
\* started.
C22_WorkCoalesced == WorkQueued <= 1

\* A work invocation is queued and another thread's schedule_work has
\* returned without queueing a second one.
C22_Witness ==
    /\ \E i \in DOMAIN queue : queue[i].kind = "work"
    /\ \E t \in DOMAIN sched : sched[t] = "coalesced"
    /\ pending

\* C23: the policy's resolver_update, subchannel_update and work never run
\* concurrently: all three are closures on the one work queue, which a
\* single task runs one at a time in the order they were sent.
C23_SequentialDelivery ==
    [][/\ (chan'.policy # chan.policy \/ chan'.w # chan.w) =>
             (wq.pc = "run" /\ wq'.pc = "recv")
       /\ (wq.pc = "recv" /\ wq'.pc = "run") =>
             /\ wq'.item.seq > chan.last_run
             /\ \A i \in DOMAIN queue' : queue'[i].seq > wq'.item.seq
             /\ wq'.item.kind \in {"resolver_update", "subchannel_update", "work"}
    ]_vars

\* The task is about to run a work closure while a subchannel update and a
\* resolver update, sent later, wait in the queue.
C23_Witness ==
    /\ wq.pc = "run" /\ wq.item.kind = "work"
    /\ Len(queue) = 2
    /\ queue[1].kind = "subchannel_update"
    /\ queue[2].kind = "resolver_update"

C26_BadUpdateRejected ==
    [][(/\ wq.pc = "run" /\ wq.item.kind = "resolver_update"
        /\ wq' # wq
        /\ wq.item.update.kind # "Data" \/ wq.item.update.service_config # None)
       => /\ wq'.pc # "panicked"
          /\ resolver'[wq.item.from].reply # None
          /\ ~resolver'[wq.item.from].reply[1].ok
          /\ chan'.policy = chan.policy
          /\ chan'.w = chan.w
    ]_vars

\* C30: once the policy has dropped its handle of a subchannel, no state
\* update of that subchannel made after the drop is delivered to the policy.
C30_NoUpdateAfterDrop ==
    [][(wq.pc = "run" /\ wq.item.kind = "subchannel_update" /\ wq'.pc = "recv")
       => \A d \in chan.dropped :
             ~(d.sc = wq.item.subchannel /\ wq.item.seq > d.at)
    ]_vars

\* C29: an RPC that is handed a picker whose pick is Queue or Err goes back
\* to waiting for a newer picker or fails with an error; it does not panic.
C29_NotReadyNeverPanics ==
    [][(/\ call.rpc.pc = "pick"
        /\ call.rpc.p.kind \in {"Queuing", "Dummy"}
        /\ call'.rpc # call.rpc)
       => call'.rpc.pc \in {"changed", "failed"}
    ]_vars

\* ===================== the routing and the broadcasting child manager
\* mgr.single is the ChildManager of child_manager_single.rs over the child
\* policies of chi_pol_single.rs; mgr.broadcast the ChildManager of
\* child_manager_broadcast.rs over those of chi_pol_batched.rs.  Both are
\* handed the same resolver updates and the same subchannel events, each
\* against a channel controller of its own (w), so that the two create
\* subchannels with the same ids in the same order.

\* resolve_child_controller of the broadcasting manager: only the state.
BC_resolve_child_controller(chs, channel_controller, child_idx) ==
    IF channel_controller.picker_update # None
    THEN [chs EXCEPT ![child_idx].state = channel_controller.picker_update[1]]
    ELSE chs

\* The loop over ids_builders of the broadcasting manager.  acc is
\* [children, old_children, in_use].
RECURSIVE BC_ReconcileLoop(_, _, _)
BC_ReconcileLoop(acc, ids, new_idx) ==
    IF new_idx > Len(ids) THEN acc
    ELSE
      LET identifier == ids[new_idx] IN
      IF identifier \in DOMAIN acc.old_children
      THEN LET e == acc.old_children[identifier] IN
           BC_ReconcileLoop(
             [acc EXCEPT !.children = Append(@, [identifier |-> identifier,
                                                 state |-> e.state,
                                                 policy |-> e.policy]),
                         !.old_children = Without(@, {identifier})],
             ids, new_idx + 1)
      ELSE LET policy == Build(acc.in_use) IN
           BC_ReconcileLoop(
             [acc EXCEPT !.children = Append(@, FreshChild(identifier, policy)),
                         !.in_use = @ \cup {policy}],
             ids, new_idx + 1)

\* The broadcasting manager's resolver_update up to its fan-out.
BC_reconcile(chs, resolver_update) ==
    LET sh == shard_update(resolver_update) IN
    IF ~sh.ok
    THEN [ok |-> FALSE, children |-> chs, updates |-> <<>>]
    ELSE
      LET ids == [i \in DOMAIN sh.child_updates |-> sh.child_updates[i].child_identifier]
          r == BC_ReconcileLoop([children |-> <<>>,
                                 old_children |-> HashOldChildren(chs),
                                 in_use |-> Policies(chs)], ids, 1)
      IN  [ok |-> TRUE, children |-> r.children,
           updates |-> [i \in DOMAIN sh.child_updates |-> sh.child_updates[i].child_update]]

\* for child in self.children.iter_mut(): the child's resolver_update, its
\* result dropped, then resolve.  acc is [children, scs, w].
RECURSIVE BC_FanOut(_, _, _)
BC_FanOut(acc, updates, child_idx) ==
    IF child_idx > Len(acc.children) THEN acc
    ELSE LET policy == acc.children[child_idx].policy
             n == Iter_next(updates)
             r == CP_resolver_update(acc.scs[policy], n.item, WrappedController_new, acc.w)
         IN  BC_FanOut([children |-> BC_resolve_child_controller(acc.children, r.wc, child_idx),
                        scs |-> [acc.scs EXCEPT ![policy] = r.scs],
                        w |-> r.w],
                       n.rest, child_idx + 1)

\* The loop of the batched ChildPolicy::subchannel_update over the pairs of
\* the update: a subchannel that is not in scs is skipped.
RECURSIVE CPB_store(_, _)
CPB_store(policy_scs, update) ==
    IF update = <<>> THEN policy_scs
    ELSE LET e == Head(update) IN
         CPB_store(IF e.subchannel \in DOMAIN policy_scs
                   THEN [policy_scs EXCEPT ![e.subchannel] = e.state]
                   ELSE policy_scs,
                   Tail(update))

\* The batched ChildPolicy::subchannel_update: the loop, then update_picker
\* with the effective state of scs.
CPB_subchannel_update(policy_scs, policy, update, wc, w) ==
    LET scs2 == CPB_store(policy_scs, update)
        r == WC_update_picker(wc, w,
                [connectivity_state |-> effective_state(Values(scs2, DOMAIN scs2)),
                 picker |-> DummyPicker(policy)])
    IN  [scs |-> scs2, wc |-> r.wc, w |-> r.w]

\* The broadcasting manager's subchannel_update: every child is called and
\* resolved.  acc is [children, scs, w].
RECURSIVE BC_subchannel_update(_, _, _)
BC_subchannel_update(acc, update, child_idx) ==
    IF child_idx > Len(acc.children) THEN acc
    ELSE LET policy == acc.children[child_idx].policy
             r == CPB_subchannel_update(acc.scs[policy], policy, update,
                                        WrappedController_new, acc.w)
         IN  BC_subchannel_update(
               [children |-> BC_resolve_child_controller(acc.children, r.wc, child_idx),
                scs |-> [acc.scs EXCEPT ![policy] = r.scs],
                w |-> r.w],
               update, child_idx + 1)

\* scs of the policies of chs: kept for a policy that was there before.
KeptScs(chs, old_chs, old_scs) ==
    [p \in Policies(chs) |-> IF p \in Policies(old_chs) THEN old_scs[p]
                             ELSE ChildPolicy_default]

NewWorld == [cc |-> [subchannels |-> <<>>, picker |-> None, calls |-> <<>>], next |-> 0]

InitMgr ==
    /\ Init_cm /\ Init_dp /\ Init_es /\ Init_rr /\ Init_id /\ Init_sc
    /\ Init_w /\ Init_q /\ Init_pf /\ Init_wk /\ Init_cbm
    /\ mgr = [single |-> [self |-> [children |-> <<>>, subchannel_child_map |-> <<>>],
                          scs |-> <<>>, w |-> NewWorld],
              broadcast |-> [children |-> <<>>, scs |-> <<>>, w |-> NewWorld],
              last |-> "new"]

\* The same resolver update given to both managers.
MgrResolverUpdate ==
    /\ \E update \in ResolverUpdates :
         LET s == mgr.single
             b == mgr.broadcast
             r == CM_reconcile(s.self, update)
             q == BC_reconcile(b.children, update)
         IN  IF ~r.ok
             THEN mgr' = [mgr EXCEPT !.last = "resolver_update"]
             ELSE /\ s.w.next + Len(r.children) * AddrsPerEndpoint <= MaxDPSubchannels
                  /\ LET f == FanOut([self |-> [children |-> r.children,
                                                subchannel_child_map |-> r.subchannel_child_map],
                                      scs |-> KeptScs(r.children, s.self.children, s.scs),
                                      w |-> StartCalls(s.w),
                                      created_by |-> <<>>,
                                      result |-> "Ok"],
                                     r.updates, 1)
                         g == BC_FanOut([children |-> q.children,
                                         scs |-> KeptScs(q.children, b.children, b.scs),
                                         w |-> StartCalls(b.w)],
                                        q.updates, 1)
                     IN  mgr' = [single |-> [self |-> f.self, scs |-> f.scs, w |-> f.w],
                                 broadcast |-> [children |-> g.children, scs |-> g.scs,
                                                w |-> g.w],
                                 last |-> "resolver_update"]
    /\ UNCHANGED <<wk, cbm, cmvars, dpvars, esvars, rrvars, idvars, scvars, wvars, qvars, pfvars>>

\* The same event on a live subchannel, one the routing manager has an
\* owner for, given to both managers.
MgrSubchannelUpdate ==
    /\ \E subchannel \in DOMAIN mgr.single.self.subchannel_child_map,
          state \in ConnectivityState :
         LET s == mgr.single
             b == mgr.broadcast
             child_idx == s.self.subchannel_child_map[subchannel]
             policy == s.self.children[child_idx].policy
             r == CP_subchannel_update(s.scs[policy], policy, subchannel, state,
                                       WrappedController_new, StartCalls(s.w))
             g == BC_subchannel_update([children |-> b.children, scs |-> b.scs,
                                        w |-> StartCalls(b.w)],
                                       <<[subchannel |-> subchannel, state |-> state]>>, 1)
         IN  mgr' = [single |-> [self |-> resolve_child_controller(s.self, r.wc, child_idx),
                                 scs |-> [s.scs EXCEPT ![policy] = r.scs],
                                 w |-> r.w],
                     broadcast |-> [children |-> g.children, scs |-> g.scs, w |-> g.w],
                     last |-> "subchannel_update"]
    /\ UNCHANGED <<wk, cbm, cmvars, dpvars, esvars, rrvars, idvars, scvars, wvars, qvars, pfvars>>

NextMgr == MgrResolverUpdate \/ MgrSubchannelUpdate

SpecMgr == InitMgr /\ [][NextMgr]_vars


C36_RequestedWorkDone ==
    [][wk'.last = "work" /\ wk.last # "work"
       => /\ \A i \in DOMAIN wk.children :
                wk.children[i].policy \in wk.asked
                   => [child_idx |-> i, policy |-> wk.children[i].policy] \in wk'.invoked
          /\ \A e \in wk'.invoked : e.policy \in wk.asked
    ]_vars

\* C32: a subchannel-state update for a subchannel that is not in the
\* ownership map is ignored: the manager does not panic, calls no child
\* policy and leaves every child's LbState as it was.
C32_UnknownSubchannelIgnored ==
    [][\A s \in Range(cc.subchannels) \ DOMAIN subchannel_child_map :
          SubchannelUpdateWith(s) =>
             /\ ~panicked'
             /\ frame'.pc # "resolve"
             /\ children' = children]_vars

\* C34: while child policy code runs (a child's resolver_update or a
\* child's subchannel closure) the manager does not hold the lock on its
\* child list and ownership map.
C34_NoChildCallUnderLock ==
    cbm.pc \in {"child", "callback"} => ~cbm.locked

\* C33: subchannel_update of pick_first publishes only for a READY update of
\* one of the policy's own subchannels, and then exactly one LbState, READY,
\* whose picker picks that subchannel; for any other subchannel or state it
\* publishes nothing and changes nothing.
C33_PublishesOnlyOwnReady ==
    [][(/\ pf_result'.op = "subchannel_update"
        /\ <<pf, pfw, pf_result>>' # <<pf, pfw, pf_result>>)
       => LET sc == pf_result'.subchannel IN
          IF sc \in Range(pf.subchannels) /\ pf_result'.state = "Ready"
          THEN /\ Len(pfw'.cc.calls) = Len(pfw.cc.calls) + 1
               /\ SubSeq(pfw'.cc.calls, 1, Len(pfw.cc.calls)) = pfw.cc.calls
               /\ LET c == pfw'.cc.calls[Len(pfw'.cc.calls)] IN
                  /\ c.op = "update_picker"
                  /\ c.state.connectivity_state = "Ready"
                  /\ pick(c.state.picker) = [kind |-> "Subchannel", subchannel |-> sc]
                  /\ pfw'.cc.picker = Some(c.state)
               /\ pf' = pf
          ELSE pfw' = pfw /\ pf' = pf
    ]_vars

\* The policy holds two subchannels, the controller knows a third that the
\* policy dropped, and the last READY update published a picker for the
\* second of the policy's own.
C33_Witness ==
    /\ pf_result.op = "subchannel_update"
    /\ pf_result.state = "Ready"
    /\ Len(pf.subchannels) = 2
    /\ pf_result.subchannel = pf.subchannels[2]
    /\ RoutesTo(pfw, pf.subchannels[2])
    /\ Range(pfw.cc.subchannels) \ Range(pf.subchannels) # {}

\* The identifiers of a child list, in order.
IdentifiersOf(chs) == [i \in DOMAIN chs |-> chs[i].identifier]

\* C35: a successful resolver_update leaves the child list with the
\* identifiers of the sharded sequence, same order and length; the children
\* are called in that order, one after the other, and the i-th child is
\* given the i-th sharded ResolverUpdate.
C35_OrderedFanOut ==
    [][/\ \A update \in ResolverUpdates :
             (ResolverUpdateBeginWith(update) /\ shard_update(update).ok) =>
                LET cu == shard_update(update).child_updates IN
                /\ IdentifiersOf(children') = [i \in DOMAIN cu |-> cu[i].child_identifier]
                /\ frame'.child_idx = 1
       /\ (frame.op = "resolver_update" /\ frame.pc = "next" /\ frame'.pc = "resolve") =>
             /\ frame'.child_idx = frame.child_idx
             /\ frame'.policy = children[frame.child_idx].policy
             /\ frame'.child_update =
                   Some([kind |-> "Data",
                         endpoints |-> <<children[frame.child_idx].identifier>>])
       /\ (frame.op = "resolver_update" /\ frame.pc = "resolve" /\ frame'.pc = "next") =>
             /\ frame'.child_idx = frame.child_idx + 1
             /\ IdentifiersOf(children') = IdentifiersOf(children)
       /\ (frame.op = "resolver_update" /\ frame.pc = "next" /\ frame'.pc = "return") =>
             /\ frame.child_idx = Len(children) + 1
             /\ frame.updates = <<>>
             /\ frame'.result = "Ok"
    ]_vars

\* The second of two children with different identifiers is being given its
\* update, the first having been given its own.
C35_Witness ==
    /\ frame.op = "resolver_update" /\ frame.pc = "resolve"
    /\ frame.child_idx = 2
    /\ Len(children) = 2
    /\ children[1].identifier # children[2].identifier
    /\ frame.child_update = Some([kind |-> "Data", endpoints |-> <<children[2].identifier>>])

\* A work closure that has not started the policy's work: queued, received
\* by the task but not run, or about to be sent by a thread in schedule_work.
WorkOutstanding ==
    \/ \E i \in DOMAIN queue : queue[i].kind = "work"
    \/ wq.pc = "run" /\ wq.item.kind = "work"
    \/ \E t \in DOMAIN sched : sched[t] = "replaced"

\* C37: on a live channel, whenever the pending flag is set (which is when
\* schedule_work returns without sending) a work closure is outstanding that
\* has not yet started the policy's work, and the policy's work does start
\* afterwards.
C37_ScheduledWorkRuns ==
    /\ [](Alive /\ pending => WorkOutstanding)
    /\ (pending ~> (~pending \/ ~Alive))

\* A thread's schedule_work found the flag set and returned without sending
\* while the work closure of another call is still in the queue.
C37_Witness ==
    /\ Alive /\ pending
    /\ \E t \in DOMAIN sched : sched[t] = "coalesced"
    /\ \E i \in DOMAIN queue : queue[i].kind = "work"
    /\ wq.pc = "run" /\ wq.item.kind # "work"

\* C38: whatever Channel::state returns is the connectivity state of the
\* LbState whose picker is current at that instant.
C38_PickerAndStateTogether ==
    call # <<>> /\ call.state # None => call.state[1].of = call.state[1].picker_of

\* C39: while the first next() of an iterator has not returned and a value
\* has been published, its changed() is ready, so it does not wait; the
\* value it returns is the one published last; and once a value is
\* published the first next() does return.
C39_FirstNextImmediate ==
    /\ [](rx.pc = "changed" /\ observed = <<>> /\ Pubs >= 1 => changed_ready(rx, watch))
    /\ [](observed # <<>> => observed[1].item.pub = observed[1].latest)
    /\ ((rx.pc # "none" /\ Pubs >= 1) ~> (observed # <<>>))

\* An iterator made after two publications has returned the second from its
\* first next(), no further value having been published.
C39_Witness ==
    /\ rx.pc # "none" /\ rx.born = 2
    /\ Len(observed) = 1
    /\ observed[1].item.pub = 2
    /\ Pubs = 2

\* What child_states shows of a child list: identifiers and connectivity
\* states, in order.
ChildView(chs) ==
    [i \in DOMAIN chs |-> [identifier |-> chs[i].identifier,
                           connectivity_state |-> chs[i].state.connectivity_state]]

\* C40: after every resolver update and every event on a live subchannel
\* the routing manager and the broadcasting manager hold the same children
\* in the same order, each with the same stored connectivity state.
C40_ManagersAgree ==
    ChildView(mgr.single.self.children) = ChildView(mgr.broadcast.children)

====
